---- MODULE Spec2Model ----
(***************************************************************************)
(* tarxx tar writer (include/tarxx.h): the tarfile state machine, the      *)
(* header builder and the output sink, with bytes as numbers 0..255 and    *)
(* strings as sequences of bytes.                                          *)
(***************************************************************************)
EXTENDS Integers, Sequences, FiniteSets, TLC

\* ------------------------------------------------------------------------
\* Bounds of the exploration
\* ------------------------------------------------------------------------
\* The number of calls made on a writer
MaxCalls == 3

\* The number of calls made on a writer that streams one entry in chunks
MaxStreamCalls == 5

\* ------------------------------------------------------------------------
\* Program constants
\* ------------------------------------------------------------------------
BLOCK_SIZE == 512

UNIX_V7_USTAR_HEADER_POS_NAME == 0
UNIX_V7_USTAR_HEADER_POS_MODE == 100
UNIX_V7_USTAR_HEADER_POS_UID == 108
UNIX_V7_USTAR_HEADER_POS_GID == 116
UNIX_V7_USTAR_HEADER_POS_SIZE == 124
UNIX_V7_USTAR_HEADER_POS_MTIM == 136
UNIX_V7_USTAR_HEADER_POS_CHECKSUM == 148
UNIX_V7_USTAR_HEADER_POS_TYPEFLAG == 156
UNIX_V7_USTAR_HEADER_POS_LINKNAME == 157
USTAR_HEADER_POS_MAGIC == 257
USTAR_HEADER_POS_UNAME == 265
USTAR_HEADER_POS_GNAME == 297
USTAR_HEADER_POS_DEVMAJOR == 329
USTAR_HEADER_POS_DEVMINOR == 337
USTAR_HEADER_POS_PREFIX == 345

UNIX_V7_USTAR_HEADER_LEN_NAME == 100
UNIX_V7_USTAR_HEADER_LEN_MODE == 8
UNIX_V7_USTAR_HEADER_LEN_UID == 8
UNIX_V7_USTAR_HEADER_LEN_GID == 8
UNIX_V7_USTAR_HEADER_LEN_SIZE == 12
UNIX_V7_USTAR_HEADER_LEN_MTIM == 12
UNIX_V7_USTAR_HEADER_LEN_CHKSUM == 8
UNIX_V7_USTAR_HEADER_LEN_TYPEFLAG == 1
UNIX_V7_USTAR_HEADER_LEN_LINKNAME == 100
USTAR_HEADER_LEN_MAGIC == 6
USTAR_HEADER_LEN_UNAME == 32
USTAR_HEADER_LEN_GNAME == 32
USTAR_HEADER_LEN_DEVMAJOR == 8
USTAR_HEADER_LEN_DEVMINOR == 8
USTAR_HEADER_LEN_PREFIX == 155

\* enum class file_type_flag : char, by character code
REGULAR_FILE == 48
HARD_LINK == 49
SYMBOLIC_LINK == 50
CHARACTER_SPECIAL_FILE == 51
BLOCK_SPECIAL_FILE == 52
DIRECTORY == 53
FIFO == 54
CONTIGUOUS_FILE == 55

\* What type_flag answers for a path that is none of these (a socket, say):
\* it throws std::invalid_argument
UNSUPPORTED_TYPE == 0

\* permission_t::all_all = 0777
all_all == 511

\* ------------------------------------------------------------------------
\* Characters and strings
\* ------------------------------------------------------------------------
SLASH == 47
DOT == 46
SPACE == 32
CH_0 == 48

Min(a, b) == IF a < b THEN a ELSE b
Max(a, b) == IF a > b THEN a ELSE b

\* n zero bytes
RECURSIVE Zeros(_)
Zeros(n) ==
    IF n <= 0 THEN <<>>
    ELSE IF n % 2 = 0 THEN LET half == Zeros(n \div 2) IN half \o half
    ELSE Append(Zeros(n - 1), 0)

\* block_t b {}
ZeroBlock == Zeros(BLOCK_SIZE)

\* ceil(n / BLOCK_SIZE)
CeilBlocks(n) == (n + BLOCK_SIZE - 1) \div BLOCK_SIZE

\* std::string::find(sub) == 0
StartsWith(s, sub) ==
    /\ Len(s) >= Len(sub)
    /\ SubSeq(s, 1, Len(sub)) = sub

\* std::string::find(sub) != npos
Contains(s, sub) ==
    \E i \in 1..(Len(s) - Len(sub) + 1) : SubSeq(s, i, i + Len(sub) - 1) = sub

\* std::string::rfind(ch): 0-based index of the last occurrence, -1 for npos
RFind(s, ch) ==
    LET hits == {i \in 1..Len(s) : s[i] = ch}
    IN  IF hits = {} THEN -1
        ELSE (CHOOSE i \in hits : \A j \in hits : j <= i) - 1

\* target_path.rfind('/') == target_path.size() - 1 (npos never equals it
\* for a non-empty string)
EndsWithSlash(s) == Len(s) > 0 /\ s[Len(s)] = SLASH

\* Filesystem::relative_path; "throw" stands for std::invalid_argument
RelThrow == <<-1>>

RECURSIVE relative_path(_)
relative_path(path) ==
    IF path = <<>> THEN <<>>
    ELSE IF path = <<DOT, DOT, SLASH>> THEN <<DOT, SLASH>>
    ELSE IF path = <<SLASH>> THEN RelThrow
    ELSE IF path[1] = SLASH THEN relative_path(Tail(path))
    ELSE IF StartsWith(path, <<DOT, DOT>>) THEN relative_path(Tail(Tail(path)))
    ELSE path

\* ------------------------------------------------------------------------
\* Field encoder
\* ------------------------------------------------------------------------
RECURSIVE OctDigits(_)
OctDigits(v) ==
    IF v < 8 THEN <<CH_0 + v>>
    ELSE Append(OctDigits(v \div 8), CH_0 + (v % 8))

\* operator<< of the value under std::oct, setfill('0') and setw(width)
OctPadded(v, width) ==
    LET d == OctDigits(v)
    IN  IF Len(d) < width THEN <<>> \o [i \in 1..(width - Len(d)) |-> CH_0] \o d
        ELSE d

\* sstr << std::oct << std::ios::right << ... : the fmtflags constant
\* std::ios::right (0x80) is itself inserted as a number, in octal: "200"
IosRightInOctal == <<50, 48, 48>>

\* to_octal_ascii keeping the first width characters of the string, not the
\* last: str.substr(0, width)
to_octal_ascii_from_front(value, width) ==
    LET str == IosRightInOctal \o OctPadded(value, width)
    IN  IF Len(str) > width THEN SubSeq(str, 1, width)
        ELSE str

\* tarfile::to_octal_ascii
to_octal_ascii(value, width) ==
    LET str == IosRightInOctal \o OctPadded(value, width)
    IN  IF Len(str) > width THEN SubSeq(str, Len(str) - width + 1, Len(str))
        ELSE str

\* tarfile::write_into_block(block, str, pos, len)
write_into_block_str(block, str, pos, len) ==
    LET copylen == IF Len(str) < len THEN Len(str) ELSE len
    IN  SubSeq(block, 1, pos) \o SubSeq(str, 1, copylen)
            \o SubSeq(block, pos + copylen + 1, Len(block))

\* tarfile::write_into_block(block, value, pos, len)
write_into_block(block, value, pos, len) ==
    write_into_block_str(block, to_octal_ascii(value, len), pos, len)

\* for (unsigned char c : block) chksum += (c & checksum_mask), over the
\* bytes lo..hi
RECURSIVE SumBytes(_, _, _)
SumBytes(block, lo, hi) ==
    IF lo > hi THEN 0
    ELSE IF lo = hi THEN block[lo] % 256
    ELSE LET mid == (lo + hi) \div 2
         IN  SumBytes(block, lo, mid) + SumBytes(block, mid + 1, hi)

\* calc_and_write_checksum that sums the bytes of the block as they are,
\* without the spaces in the checksum field
calc_and_write_checksum_of_zeroed_field(block) ==
    [write_into_block(block, SumBytes(block, 1, Len(block)),
                      UNIX_V7_USTAR_HEADER_POS_CHECKSUM,
                      UNIX_V7_USTAR_HEADER_LEN_CHKSUM - 2)
        EXCEPT ![UNIX_V7_USTAR_HEADER_POS_CHECKSUM
                 + UNIX_V7_USTAR_HEADER_LEN_CHKSUM - 1 + 1] = 0]

\* tarfile::calc_and_write_checksum
calc_and_write_checksum(block) ==
    LET filled == SubSeq(block, 1, UNIX_V7_USTAR_HEADER_POS_CHECKSUM)
                      \o [i \in 1..UNIX_V7_USTAR_HEADER_LEN_CHKSUM |-> SPACE]
                      \o SubSeq(block, UNIX_V7_USTAR_HEADER_POS_CHECKSUM
                                        + UNIX_V7_USTAR_HEADER_LEN_CHKSUM + 1,
                                Len(block))
        chksum == SumBytes(filled, 1, Len(filled))
        digits == write_into_block(filled, chksum,
                                   UNIX_V7_USTAR_HEADER_POS_CHECKSUM,
                                   UNIX_V7_USTAR_HEADER_LEN_CHKSUM - 2)
    IN  [digits EXCEPT ![UNIX_V7_USTAR_HEADER_POS_CHECKSUM
                         + UNIX_V7_USTAR_HEADER_LEN_CHKSUM - 1 + 1] = 0]

\* ------------------------------------------------------------------------
\* The host: a fixed filesystem and user database (Platform)
\* ------------------------------------------------------------------------
P_a == <<SLASH, 97>>       \* "/a"
P_b == <<SLASH, 98>>       \* "/b"
P_c == <<SLASH, 99>>       \* "/c"
P_d == <<SLASH, 100>>      \* "/d"
P_df == <<SLASH, 100, SLASH, 102>>   \* "/d/f"
P_l == <<SLASH, 108>>      \* "/l"
P_p == <<SLASH, 112>>      \* "/p"
P_o == <<SLASH, 111>>      \* "/o"
P_k == <<SLASH, 107>>      \* "/k"
P_v == <<SLASH, 118>>      \* "/v"
P_s == <<SLASH, 115>>      \* "/s"
P_u == <<SLASH, 117>>      \* "/u"
P_x == <<SLASH, 120>>      \* "/x"
P_e == <<SLASH, 101>>      \* "/e"
P_ex == <<SLASH, 101, SLASH, 120>>   \* "/e/x"
P_up == <<SLASH, DOT, DOT, SLASH, 97>>   \* "/../a"
P_ds == <<SLASH, 100, SLASH>>         \* "/d/"
P_z == <<SLASH, 122>>      \* "/z", which does not exist

\* One record per directory entry: ltype is what lstat reports, target the
\* real path of a symbolic link; ino, nlink, size, uid, gid, perms and mtime
\* are those of the inode.  /b and /c are two links to one inode, /a and
\* /d/f have one link each, /l is a symbolic link to /b, /o is the archive,
\* /p a FIFO, /k a character device, /v a block device and /s a regular
\* file with the set-user-ID bit (perms 04755).  /u is a regular file that
\* cannot be opened for reading, /x and /e/x are sockets, /e a directory.
\* /../a is another path to /a, /d/ another one to /d.
Files ==
    { [path |-> P_a, ltype |-> REGULAR_FILE, target |-> <<>>, ino |-> 1,
       nlink |-> 1, size |-> 600, uid |-> 0, gid |-> 0, perms |-> 420,
       mtime |-> 5, major |-> 0, minor |-> 0],
      [path |-> P_b, ltype |-> REGULAR_FILE, target |-> <<>>, ino |-> 2,
       nlink |-> 2, size |-> 13, uid |-> 0, gid |-> 0, perms |-> 420,
       mtime |-> 6, major |-> 0, minor |-> 0],
      [path |-> P_c, ltype |-> REGULAR_FILE, target |-> <<>>, ino |-> 2,
       nlink |-> 2, size |-> 13, uid |-> 0, gid |-> 0, perms |-> 420,
       mtime |-> 6, major |-> 0, minor |-> 0],
      [path |-> P_d, ltype |-> DIRECTORY, target |-> <<>>, ino |-> 3,
       nlink |-> 2, size |-> 0, uid |-> 0, gid |-> 0, perms |-> 493,
       mtime |-> 7, major |-> 0, minor |-> 0],
      [path |-> P_df, ltype |-> REGULAR_FILE, target |-> <<>>, ino |-> 4,
       nlink |-> 1, size |-> 13, uid |-> 0, gid |-> 0, perms |-> 420,
       mtime |-> 8, major |-> 0, minor |-> 0],
      [path |-> P_l, ltype |-> SYMBOLIC_LINK, target |-> P_b, ino |-> 5,
       nlink |-> 1, size |-> 2, uid |-> 0, gid |-> 0, perms |-> 511,
       mtime |-> 9, major |-> 0, minor |-> 0],
      [path |-> P_p, ltype |-> FIFO, target |-> <<>>, ino |-> 6,
       nlink |-> 1, size |-> 0, uid |-> 0, gid |-> 0, perms |-> 420,
       mtime |-> 10, major |-> 0, minor |-> 0],
      [path |-> P_o, ltype |-> REGULAR_FILE, target |-> <<>>, ino |-> 7,
       nlink |-> 1, size |-> 0, uid |-> 0, gid |-> 0, perms |-> 420,
       mtime |-> 11, major |-> 0, minor |-> 0],
      [path |-> P_k, ltype |-> CHARACTER_SPECIAL_FILE, target |-> <<>>, ino |-> 8,
       nlink |-> 1, size |-> 0, uid |-> 0, gid |-> 0, perms |-> 420,
       mtime |-> 12, major |-> 4, minor |-> 2],
      [path |-> P_v, ltype |-> BLOCK_SPECIAL_FILE, target |-> <<>>, ino |-> 9,
       nlink |-> 1, size |-> 0, uid |-> 0, gid |-> 0, perms |-> 420,
       mtime |-> 13, major |-> 8, minor |-> 1],
      [path |-> P_s, ltype |-> REGULAR_FILE, target |-> <<>>, ino |-> 10,
       nlink |-> 1, size |-> 13, uid |-> 0, gid |-> 0, perms |-> 2541,
       mtime |-> 14, major |-> 0, minor |-> 0],
      [path |-> P_u, ltype |-> REGULAR_FILE, target |-> <<>>, ino |-> 11,
       nlink |-> 1, size |-> 13, uid |-> 0, gid |-> 0, perms |-> 128,
       mtime |-> 15, major |-> 0, minor |-> 0],
      [path |-> P_x, ltype |-> UNSUPPORTED_TYPE, target |-> <<>>, ino |-> 12,
       nlink |-> 1, size |-> 0, uid |-> 0, gid |-> 0, perms |-> 420,
       mtime |-> 16, major |-> 0, minor |-> 0],
      [path |-> P_e, ltype |-> DIRECTORY, target |-> <<>>, ino |-> 13,
       nlink |-> 2, size |-> 0, uid |-> 0, gid |-> 0, perms |-> 493,
       mtime |-> 17, major |-> 0, minor |-> 0],
      [path |-> P_ex, ltype |-> UNSUPPORTED_TYPE, target |-> <<>>, ino |-> 14,
       nlink |-> 1, size |-> 0, uid |-> 0, gid |-> 0, perms |-> 420,
       mtime |-> 18, major |-> 0, minor |-> 0],
      [path |-> P_up, ltype |-> REGULAR_FILE, target |-> <<>>, ino |-> 1,
       nlink |-> 1, size |-> 600, uid |-> 0, gid |-> 0, perms |-> 420,
       mtime |-> 5, major |-> 0, minor |-> 0],
      [path |-> P_ds, ltype |-> DIRECTORY, target |-> <<>>, ino |-> 3,
       nlink |-> 2, size |-> 0, uid |-> 0, gid |-> 0, perms |-> 493,
       mtime |-> 7, major |-> 0, minor |-> 0] }

\* StdFilesytem::file_exists
file_exists(path) == \E f \in Files : f.path = path

DirEntry(path) == CHOOSE f \in Files : f.path = path

\* StdFilesytem::type_flag: is_symlink is asked first; UNSUPPORTED_TYPE
\* stands for the std::invalid_argument thrown for a path that does not
\* exist or is of no kind asked for
type_flag(path) ==
    IF file_exists(path) THEN DirEntry(path).ltype ELSE UNSUPPORTED_TYPE

\* std::ifstream(path).good(): the file can be opened for reading
Unreadable == {P_u}
ifstream_good(path) == file_exists(path) /\ path \notin Unreadable

\* PosixOS::realpath
realpath(path) ==
    IF DirEntry(path).ltype = SYMBOLIC_LINK THEN DirEntry(path).target ELSE path

\* PosixOS::get_stat: stat(2) follows symbolic links
get_stat(path) == DirEntry(realpath(path))

\* StdFilesytem::read_symlink
read_symlink(path) == DirEntry(path).target

\* StdFilesytem::file_size, mode and mod_time follow symbolic links too;
\* mode collects the nine bits from owner_read to others_exec
file_size(path) == get_stat(path).size
mode_of(path) == get_stat(path).perms % 512
mod_time(path) == get_stat(path).mtime

\* PosixOS::major_minor
major_minor(path) == [major |-> get_stat(path).major, minor |-> get_stat(path).minor]

\* PosixOS::file_owner, file_group, ino
file_owner(path) == get_stat(path).uid
file_group(path) == get_stat(path).gid
ino(path) == get_stat(path).ino

\* PosixOS::file_equivalent_present; NoEquivalent stands for std::nullopt
NoEquivalent == <<-2>>

file_equivalent_present(path, stored_files) ==
    LET stat_info == get_stat(path)
    IN  IF stat_info.nlink > 1 /\ stat_info.ino \in DOMAIN stored_files
        THEN stored_files[stat_info.ino]
        ELSE NoEquivalent

\* std::filesystem::recursive_directory_iterator(path): the paths of the
\* entries below the directory, each path / name, which has one separator
\* between them whether path ends with one or not
WithSeparator(path) == IF EndsWithSlash(path) THEN path ELSE Append(path, SLASH)

Below(path) ==
    {f.path : f \in {g \in Files : /\ Len(g.path) > Len(WithSeparator(path))
                                   /\ SubSeq(g.path, 1, Len(WithSeparator(path)))
                                        = WithSeparator(path)}}

RECURSIVE SetToSeq(_)
SetToSeq(S) ==
    IF S = {} THEN <<>>
    ELSE LET x == CHOOSE y \in S : \A z \in S : Len(y) <= Len(z)
         IN  <<x>> \o SetToSeq(S \ {x})

iterateDirectory(path) ==
    IF type_flag(path) = DIRECTORY THEN <<path>> \o SetToSeq(Below(path))
    ELSE <<path>>

\* The byte at offset i (from 0) of the file with inode number n
FileByte(n, i) == ((n * 31 + i) % 255) + 1

RECURSIVE DecDigits(_)
DecDigits(v) ==
    IF v < 10 THEN <<CH_0 + v>>
    ELSE Append(DecDigits(v \div 10), CH_0 + (v % 10))

\* PosixOS::user_name / group_name: id 0 is "root", no other id has an entry
user_name(uid) == IF uid = 0 THEN <<114, 111, 111, 116>> ELSE DecDigits(uid)
group_name(gid) == IF gid = 0 THEN <<114, 111, 111, 116>> ELSE DecDigits(gid)

\* PosixOS::path_separator
path_separator == SLASH

\* ------------------------------------------------------------------------
\* The writer (struct tarfile).  A writer is a record s of its data members;
\* s.exc is the exception in flight ("none" while the call is running
\* normally), s.emitted the calls the callback has received, s.admitted the
\* entries whose admission returned normally, in order of return.
\* ------------------------------------------------------------------------
Throw(s, what) == [s EXCEPT !.exc = what]

\* tarfile::is_open
is_open(s) ==
    IF s.mode_ = "file_output" THEN s.file_.is_open ELSE s.callback_

\* file_.write(data, n) at the put position
FileWriteAt(f, bytes) ==
    [f EXCEPT
        !.content = SubSeq(f.content, 1, Min(f.pos, Len(f.content)))
                        \o Zeros(f.pos - Len(f.content))
                        \o bytes
                        \o SubSeq(f.content, f.pos + Len(bytes) + 1, Len(f.content)),
        !.pos = f.pos + Len(bytes)]

\* tarfile::file_write
file_write(s) ==
    [s EXCEPT !.file_ = IF s.file_.is_open THEN FileWriteAt(@, s.file_buffer_) ELSE @,
              !.file_buffer_ = <<>>]

\* tarfile::file_flush
file_flush(s) == file_write(s)

\* static constexpr file_buffer_default_size_ = 512 * BLOCK_SIZE
file_buffer_default_size_ == 512 * BLOCK_SIZE

\* file_buffer_.capacity(): the constructors and init_lz4 reserve
\* file_buffer_default_size_ bytes unless the writer compresses; with LZ4
\* file_buffer_ stays the empty vector it was constructed as
file_buffer_capacity(s) ==
    IF s.compression_ = "lz4" THEN 0 ELSE file_buffer_default_size_

\* tarfile::file_buffered_write.  std::copy_n beyond the capacity is
\* undefined: this is the outcome in which the bytes land behind the buffer
\* and are written to the file by the next file_write (the outcome in which
\* the process ends is a step of its own)
file_buffered_write(s, data) ==
    LET s1 == IF Len(s.file_buffer_) + Len(data) >= file_buffer_capacity(s)
              THEN file_write(s) ELSE s
    IN  [s1 EXCEPT !.file_buffer_ = @ \o data]

\* tarfile::file_close
file_close(s) ==
    LET s1 == file_flush(s)
    IN  [s1 EXCEPT !.file_.is_open = FALSE]

\* tarfile::file_seekp; s.seeks counts the seekp, tellg and tellp calls made
\* on file_ during the call
file_seekp(s, pos) ==
    LET s1 == file_flush(s)
    IN  [s1 EXCEPT !.file_.pos = pos, !.seeks = @ + 1]

\* tarfile::file_tellg / file_tellp: the writer after the flush; the
\* position told is its file_.pos
file_tell(s) == [file_flush(s) EXCEPT !.seeks = @ + 1]

\* callback_(data, data.size()): the callback of this run throws an exception
\* derived from std::exception at its s.throws_at-th invocation of the call
\* (never if that is 0); s.thrown notes that it threw
InvokeCallback(s, data, size) ==
    IF s.throws_at = 1
    THEN [s EXCEPT !.exc = "runtime_error", !.thrown = TRUE, !.throws_at = 0]
    ELSE [s EXCEPT !.emitted = Append(@, [data |-> data, size |-> size]),
                   !.throws_at = IF @ > 0 THEN @ - 1 ELSE 0]

\* ------------------------------------------------------------------------
\* The LZ4 frame encoder (lz4frame.h), by the LZ4 frame format.  s.lz4_ctx_
\* is the compression context: tmpIn the input it holds back, blockCompression
\* the kind of block that input is for.  The bytes of a compressed block are
\* not computed: such a block of n bytes takes PackedSize(n, ratio) bytes,
\* each written as PackedByte, and ratio is a property of the run.
\* ------------------------------------------------------------------------
LE32(v) == <<v % 256, (v \div 256) % 256, (v \div 65536) % 256, (v \div 16777216) % 256>>

\* v | 0x80000000 in the same byte order
LE32Flagged(v) == [LE32(v) EXCEPT ![4] = (@ % 128) + 128]

\* LZ4F_max256KB
LZ4F_BLOCK_SIZE == 262144

\* LZ4F_compressBegin under lz4_prefs_: the magic number, FLG (version 01,
\* independent blocks), BD (256 KB) and the header checksum
LZ4F_frame_header == <<4, 34, 77, 24, 96, 80, 251>>

PackedByte == 255
PackedSize(n, ratio) == Max(1, n \div ratio)

\* One data block of the frame: its size, with the highest bit set if the
\* data is stored as it is, and the data
LZ4F_block(src, blockCompression, ratio) ==
    IF blockCompression = "uncompressed" \/ PackedSize(Len(src), ratio) >= Len(src)
    THEN LE32Flagged(Len(src)) \o src
    ELSE LE32(PackedSize(Len(src), ratio))
             \o [i \in 1..PackedSize(Len(src), ratio) |-> PackedByte]

\* The bytes LZ4F_flush writes for the context ctx
FlushBytes(ctx) ==
    IF ctx.tmpIn = <<>> THEN <<>>
    ELSE LZ4F_block(ctx.tmpIn, ctx.blockCompression, ctx.ratio)

\* An LZ4F_* call has written bytes to lz4_out_buf_.data() and returned
\* their number, which the caller adds to lz4_out_buf_pos_
LZ4Out(s, bytes) ==
    [s EXCEPT !.lz4_out_buf_ = bytes \o SubSeq(@, Len(bytes) + 1, Len(@)),
              !.lz4_out_buf_pos_ = @ + Len(bytes)]

\* lz4_out_buf_pos_ += LZ4F_flush(...)
LZ4F_flush(s) ==
    LZ4Out([s EXCEPT !.lz4_ctx_.tmpIn = <<>>], FlushBytes(s.lz4_ctx_))

\* LZ4F_compressUpdate and LZ4F_uncompressedUpdate: input for the other kind
\* of block is flushed first
Switched(ctx, blockCompression) ==
    IF ctx.blockCompression # blockCompression
    THEN [ctx EXCEPT !.tmpIn = <<>>, !.blockCompression = blockCompression]
    ELSE ctx

SwitchBytes(ctx, blockCompression) ==
    IF ctx.blockCompression # blockCompression THEN FlushBytes(ctx) ELSE <<>>

\* ... and the input is held back until it fills a block
Buffered(ctx, total) ==
    IF Len(total) >= LZ4F_BLOCK_SIZE
    THEN [ctx EXCEPT !.tmpIn = SubSeq(total, LZ4F_BLOCK_SIZE + 1, Len(total))]
    ELSE [ctx EXCEPT !.tmpIn = total]

FullBlockBytes(ctx, total) ==
    IF Len(total) >= LZ4F_BLOCK_SIZE
    THEN LZ4F_block(SubSeq(total, 1, LZ4F_BLOCK_SIZE), ctx.blockCompression, ctx.ratio)
    ELSE <<>>

LZ4F_update(s, data, blockCompression) ==
    LZ4Out([s EXCEPT !.lz4_ctx_ = Buffered(Switched(@, blockCompression),
                                           Switched(@, blockCompression).tmpIn \o data)],
           SwitchBytes(s.lz4_ctx_, blockCompression)
               \o FullBlockBytes(Switched(s.lz4_ctx_, blockCompression),
                                 Switched(s.lz4_ctx_, blockCompression).tmpIn \o data))

\* LZ4F_compressEnd: the input held back, then the end mark
LZ4F_compressEnd(s) ==
    LZ4Out([s EXCEPT !.lz4_ctx_.tmpIn = <<>>], FlushBytes(s.lz4_ctx_) \o LE32(0))

\* tarfile::write_lz4_data, the loop of output_mode::stream_output: r is the
\* writer after callback_(block, copy_size)
RECURSIVE DrainToCallback(_, _)
AfterCallback(r, copy_size, offset) ==
    IF r.exc # "none" THEN r
    ELSE DrainToCallback([r EXCEPT !.lz4_out_buf_pos_ = @ - copy_size],
                         offset + copy_size)

CallbackWithCopy(s, copy_size, offset) ==
    AfterCallback(
        InvokeCallback(s,
                       SubSeq(s.lz4_out_buf_, offset + 1, offset + copy_size)
                           \o Zeros(BLOCK_SIZE - copy_size),
                       copy_size),
        copy_size, offset)

DrainToCallback(s, offset) ==
    IF s.lz4_out_buf_pos_ > 0
    THEN CallbackWithCopy(s, Min(s.lz4_out_buf_pos_, BLOCK_SIZE), offset)
    ELSE s

\* tarfile::write_lz4_data
write_lz4_data(s) ==
    IF s.exc # "none" THEN s
    ELSE IF s.mode_ = "stream_output" THEN DrainToCallback(s, 0)
    ELSE [file_buffered_write(s, SubSeq(s.lz4_out_buf_, 1, s.lz4_out_buf_pos_))
             EXCEPT !.lz4_out_buf_pos_ = 0]

\* tarfile::lz4_flush
lz4_flush(s) == write_lz4_data(LZ4F_flush(LZ4F_flush(s)))

\* "if (compression_ == compression_mode::lz4) lz4_flush();"
FlushIfLz4(s) ==
    IF s.exc = "none" /\ s.compression_ = "lz4" THEN lz4_flush(s) ELSE s

\* tarfile::init_lz4
init_lz4(s) ==
    IF s.compression_ # "lz4" THEN s
    ELSE write_lz4_data(LZ4Out(s, LZ4F_frame_header))

\* The same with every block, headers too, on the LZ4F_compressUpdate path
WriteLz4Compressed(s1, data, is_header) ==
    IF is_header
    THEN write_lz4_data(lz4_flush(LZ4F_update(s1, data, "compressed")))
    ELSE write_lz4_data(LZ4F_update(s1, data, "compressed"))

\* tarfile::write, "if (compression_ == compression_mode::lz4)"
WriteLz4(s1, data, is_header) ==
    IF is_header
    THEN write_lz4_data(lz4_flush(LZ4F_update(s1, data, "uncompressed")))
    ELSE write_lz4_data(LZ4F_update(s1, data, "compressed"))

\* tarfile::write after the test of is_open()
WriteOpen(s1, data, is_header) ==
    IF s1.compression_ = "lz4" THEN WriteLz4(s1, data, is_header)
    ELSE IF s1.mode_ = "stream_output" THEN InvokeCallback(s1, data, Len(data))
    ELSE file_buffered_write(s1, data)

\* tarfile::write; s.cur notes the blocks handed to write for the entry
\* being admitted.  A writer with an exception in flight does not reach it.
write(s, data, is_header) ==
    IF s.exc # "none" \/ ~is_open(s) THEN s
    ELSE WriteOpen([s EXCEPT !.cur = Append(@, [data |-> data, is_header |-> is_header])],
                   data, is_header)

\* tarfile::finish, "if (compression_ == compression_mode::lz4 && lz4_ctx_
\* != nullptr)"
FinishFrame(s) ==
    IF s.exc = "none" /\ s.compression_ = "lz4"
    THEN write_lz4_data(LZ4F_compressEnd(s))
    ELSE s

\* tarfile::finish
finish(s) == FinishFrame(write(write(s, ZeroBlock, FALSE), ZeroBlock, FALSE))

\* tarfile::close after finish(): "catch (const std::exception& ex)" ends
\* an exception in flight, which has skipped file_close() and the reset of
\* callback_
AfterFinish(f) ==
    IF f.exc # "none" THEN [f EXCEPT !.exc = "none"]
    ELSE [file_close(f) EXCEPT !.callback_ = FALSE]

\* tarfile::close, also run by ~tarfile()
close(s) ==
    IF is_open(s) THEN AfterFinish(finish(s)) ELSE s

\* check_state_and_flush without the test of stream_file_header_pos_
check_state_and_flush_while_streaming(s) ==
    IF ~is_open(s) THEN Throw(s, "logic_error")
    ELSE FlushIfLz4(s)

\* tarfile::check_state_and_flush
check_state_and_flush(s) ==
    IF ~is_open(s) THEN Throw(s, "logic_error")
    ELSE IF s.stream_file_header_pos_ >= 0 THEN Throw(s, "logic_error")
    ELSE FlushIfLz4(s)

\* is_file_type_supported that answers for ustar whatever the format
is_file_type_supported_by_any_format(s, flag) == TRUE

\* tarfile::is_file_type_supported
is_file_type_supported(s, flag) ==
    IF s.type_ = "unix_v7" THEN flag = DIRECTORY \/ flag <= SYMBOLIC_LINK
    ELSE TRUE

\* write_name_and_prefix that cuts at the last separator of the whole name
write_name_and_prefix_at_last_separator(s, block, name) ==
    LET v7 == write_into_block_str(block, name, UNIX_V7_USTAR_HEADER_POS_NAME,
                                   UNIX_V7_USTAR_HEADER_LEN_NAME)
        last_separator_index == RFind(name, path_separator)
        prefix == SubSeq(name, 1, last_separator_index)
        split_name == SubSeq(name, last_separator_index + 2, Len(name))
    IN  IF Len(name) <= UNIX_V7_USTAR_HEADER_LEN_NAME \/ s.type_ = "unix_v7" THEN v7
        ELSE IF last_separator_index = -1 THEN v7
        ELSE write_into_block_str(
                 write_into_block_str(block, prefix, USTAR_HEADER_POS_PREFIX,
                                      USTAR_HEADER_LEN_PREFIX),
                 split_name, UNIX_V7_USTAR_HEADER_POS_NAME,
                 UNIX_V7_USTAR_HEADER_LEN_NAME)

\* tarfile::write_name_and_prefix
write_name_and_prefix(s, block, name) ==
    LET v7 == write_into_block_str(block, name, UNIX_V7_USTAR_HEADER_POS_NAME,
                                   UNIX_V7_USTAR_HEADER_LEN_NAME)
        last_separator_index == RFind(name, path_separator)
        prefix_trimmed == SubSeq(name, 1, Min(Len(name), USTAR_HEADER_LEN_PREFIX))
        last_separator_in_prefix == RFind(prefix_trimmed, path_separator)
        prefix == SubSeq(name, 1, last_separator_in_prefix)
        split_name == SubSeq(name, last_separator_in_prefix + 2, Len(name))
    IN  IF Len(name) <= UNIX_V7_USTAR_HEADER_LEN_NAME \/ s.type_ = "unix_v7" THEN v7
        ELSE IF last_separator_index = -1 THEN v7
        ELSE IF last_separator_in_prefix = -1 THEN v7
        ELSE write_into_block_str(
                 write_into_block_str(block, prefix, USTAR_HEADER_POS_PREFIX,
                                      USTAR_HEADER_LEN_PREFIX),
                 split_name, UNIX_V7_USTAR_HEADER_POS_NAME,
                 UNIX_V7_USTAR_HEADER_LEN_NAME)

\* tarfile::write_header, the fields both formats have, from the mode to
\* the name
CommonFields(s, e, store_name) ==
    write_name_and_prefix(s,
      \* static_cast<char>(file_type) selects the numeric overload
      write_into_block(
        write_into_block(
          write_into_block(
            write_into_block(
              write_into_block(
                write_into_block(ZeroBlock, e.mode, UNIX_V7_USTAR_HEADER_POS_MODE,
                                 UNIX_V7_USTAR_HEADER_LEN_MODE),
                e.uid, UNIX_V7_USTAR_HEADER_POS_UID, UNIX_V7_USTAR_HEADER_LEN_UID),
              e.gid, UNIX_V7_USTAR_HEADER_POS_GID, UNIX_V7_USTAR_HEADER_LEN_GID),
            e.size, UNIX_V7_USTAR_HEADER_POS_SIZE, UNIX_V7_USTAR_HEADER_LEN_SIZE),
          e.time, UNIX_V7_USTAR_HEADER_POS_MTIM, UNIX_V7_USTAR_HEADER_LEN_MTIM),
        e.file_type, UNIX_V7_USTAR_HEADER_POS_TYPEFLAG,
        UNIX_V7_USTAR_HEADER_LEN_TYPEFLAG),
      store_name)

\* tarfile::write_header, "if (!link_name.empty())"
LinkField(header, e, store_link) ==
    IF e.link_name # <<>>
    THEN write_into_block_str(header, store_link, UNIX_V7_USTAR_HEADER_POS_LINKNAME,
                              UNIX_V7_USTAR_HEADER_LEN_LINKNAME)
    ELSE header

\* tarfile::write_header, "if (type_ == tar_type::ustar)"
UstarFields(s, header, e) ==
    IF s.type_ # "ustar" THEN header
    ELSE
      write_into_block_str(
        write_into_block_str(
          write_into_block_str(
            write_into_block_str(
              write_into_block_str(header, <<117, 115, 116, 97, 114>>,
                                   USTAR_HEADER_POS_MAGIC, USTAR_HEADER_LEN_MAGIC),
              user_name(e.uid), USTAR_HEADER_POS_UNAME, USTAR_HEADER_LEN_UNAME),
            group_name(e.gid), USTAR_HEADER_POS_GNAME, USTAR_HEADER_LEN_GNAME),
          to_octal_ascii(e.dev_major, USTAR_HEADER_LEN_DEVMAJOR),
          USTAR_HEADER_POS_DEVMAJOR, USTAR_HEADER_LEN_DEVMAJOR),
        to_octal_ascii(e.dev_minor, USTAR_HEADER_LEN_DEVMAJOR),
        USTAR_HEADER_POS_DEVMINOR, USTAR_HEADER_LEN_DEVMINOR)

\* tarfile::write_header, from "block_t header {}" to calc_and_write_checksum:
\* e is the entry after the directory rewriting, store_name and store_link
\* the relative paths
HeaderBlock(s, e, store_name, store_link) ==
    calc_and_write_checksum(
        UstarFields(s, LinkField(CommonFields(s, e, store_name), e, store_link), e))

\* An entry descriptor: the arguments of write_header
Entry(name, mode, uid, gid, size, time, file_type, dev_major, dev_minor, link_name) ==
    [name |-> name, mode |-> mode, uid |-> uid, gid |-> gid, size |-> size,
     time |-> time, file_type |-> file_type, dev_major |-> dev_major,
     dev_minor |-> dev_minor, link_name |-> link_name]

\* tarfile::write_header: the duplicate-name test
IsDuplicate(s, name, file_type) ==
    /\ name \in s.stored_files_
    /\ file_type \in {REGULAR_FILE, CONTIGUOUS_FILE}

\* tarfile::write_header from stored_files_.insert(name) on: name and
\* file_type are those the directory rewriting left
StoreHeader(s1, e, store_name, store_link) ==
    IF store_name = RelThrow \/ store_link = RelThrow
    THEN Throw(s1, "invalid_argument")
    ELSE write(s1, HeaderBlock(s1, e, store_name, store_link), TRUE)

\* tarfile::write_header from the test of the format's file types on
NamedHeader(s, e) ==
    IF s.type_ = "unix_v7" /\ e.file_type > SYMBOLIC_LINK
    THEN Throw(s, "logic_error")
    ELSE StoreHeader([s EXCEPT !.stored_files_ = @ \cup {e.name}], e,
                     relative_path(e.name),
                     IF e.file_type = SYMBOLIC_LINK THEN e.link_name
                     ELSE relative_path(e.link_name))

\* tarfile::write_header; a writer with an exception in flight does not
\* reach it
write_header(s, e) ==
    IF s.exc # "none" THEN s
    ELSE IF s.stream_file_header_pos_ > -1 THEN Throw(s, "logic_error")
    ELSE IF IsDuplicate(s, e.name, e.file_type) THEN Throw(s, "logic_error")
    ELSE IF e.file_type = DIRECTORY /\ e.name = <<>> THEN Throw(s, "out_of_range")
    ELSE NamedHeader(s,
           [e EXCEPT
              !.file_type = IF @ = DIRECTORY /\ s.type_ = "unix_v7" THEN REGULAR_FILE
                            ELSE @,
              !.name = IF e.file_type = DIRECTORY /\ @[Len(@)] # SLASH
                       THEN Append(@, SLASH) ELSE @])

\* infile.read(block.data(), block.size()): the number of bytes read when
\* the source holds avail bytes and off of them have been read
ReadCount(avail, off) == Min(BLOCK_SIZE, Max(avail - off, 0))

\* The block buffer after that read: bytes beyond the read keep their value
ReadInto(block, n, off, read) ==
    <<>> \o [i \in 1..read |-> FileByte(n, off + i - 1)]
         \o SubSeq(block, read + 1, BLOCK_SIZE)

\* std::fill_n(block.begin() + from, block.size() - from, 0)
FillFrom(block, from) ==
    SubSeq(block, 1, from) \o Zeros(BLOCK_SIZE - from)

\* tarfile::write_regular_file_const_size, second loop
RECURSIVE PadToSize(_, _, _)
PadToSize(s, processed_bytes, expected_size) ==
    IF processed_bytes < expected_size
    THEN PadToSize(write(s, ZeroBlock, FALSE), processed_bytes + BLOCK_SIZE,
                   expected_size)
    ELSE s

\* tarfile::write_regular_file_const_size, first loop; n is the inode read,
\* avail the number of bytes it delivers, good is infile.good()
RECURSIVE ConstSizeLoop(_, _, _, _, _, _, _)
ConstSizeLoop(s, n, avail, expected_size, block, processed_bytes, good) ==
    IF good /\ processed_bytes < expected_size
    THEN LET read == ReadCount(avail, processed_bytes)
             b1 == ReadInto(block, n, processed_bytes, read)
             processed == processed_bytes + read
             write_size == IF processed < expected_size THEN read
                           ELSE processed - expected_size
             b2 == IF write_size < BLOCK_SIZE THEN FillFrom(b1, write_size) ELSE b1
         IN  ConstSizeLoop(write(s, b2, FALSE), n, avail, expected_size, b2,
                           processed, read = BLOCK_SIZE)
    ELSE PadToSize(s, processed_bytes, expected_size)

\* tarfile::write_regular_file_const_size
write_regular_file_const_size(s, name, expected_size, avail) ==
    ConstSizeLoop(s, ino(name), avail, expected_size, ZeroBlock, 0, TRUE)

\* tarfile::write_regular_file_dynamic_size, the loop; the result is the
\* writer and the number of bytes processed
RECURSIVE DynamicSizeLoop(_, _, _, _, _, _)
DynamicSizeLoop(s, n, avail, block, processed_bytes, good) ==
    IF good
    THEN LET read == ReadCount(avail, processed_bytes)
             b1 == ReadInto(block, n, processed_bytes, read)
             b2 == IF read < BLOCK_SIZE THEN FillFrom(b1, read) ELSE b1
         IN  IF read = 0 THEN [s |-> s, size |-> processed_bytes]
             ELSE DynamicSizeLoop(write(s, b2, FALSE), n, avail, b2,
                                  processed_bytes + read, read = BLOCK_SIZE)
    ELSE [s |-> s, size |-> processed_bytes]

\* The same returning the size the file had when it was added instead of
\* the number of bytes processed
write_regular_file_dynamic_size_of_stat(s, name, avail) ==
    [DynamicSizeLoop(s, ino(name), avail, ZeroBlock, 0, TRUE)
        EXCEPT !.size = file_size(name)]

\* tarfile::write_regular_file_dynamic_size
write_regular_file_dynamic_size(s, name, avail) ==
    DynamicSizeLoop(s, ino(name), avail, ZeroBlock, 0, TRUE)

\* stored_inos_.insert({key, value}): an existing key keeps its value
MapInsert(m, key, value) ==
    IF key \in DOMAIN m THEN m
    ELSE [k \in DOMAIN m \cup {key} |-> IF k = key THEN value ELSE m[k]]

\* tarfile::read_from_filesystem_write_to_tar, what is stored per inode
StoredInoValue(resolved_source_path, target_path) == resolved_source_path

\* stored_inos_.insert({platform_.ino(resolved_source_path), ...})
InsertIno(s, resolved_source_path, target_path) ==
    [s EXCEPT !.stored_inos_ =
         MapInsert(@, ino(resolved_source_path),
                   StoredInoValue(resolved_source_path, target_path))]

\* file_seekp(data_pos) left out: the put position stays behind the header
StayAfterHeader(s, pos) == s

\* file_seekp(data_pos), which a write_header that threw does not reach
SeekUnlessThrown(s, pos) ==
    IF s.exc # "none" THEN s ELSE file_seekp(s, pos)

\* The deferred branch from file_tellp() on: s4 is the writer after the
\* data, size the number of bytes written
DeferredHeader(s4, header_pos, e, size) ==
    SeekUnlessThrown(write_header(file_seekp(s4, header_pos), [e EXCEPT !.size = size]),
                     s4.file_.pos)

\* The deferred branch after write_data(): dyn is the writer and the size
\* write_data found
DeferredData(dyn, header_pos, e) ==
    DeferredHeader(file_tell(dyn.s), header_pos, e, dyn.size)

\* The deferred branch, lz4_flush() after write_data()
FlushedData(dyn) == [s |-> FlushIfLz4(dyn.s), size |-> dyn.size]

\* The deferred branch after write(dummy_header, true): write_data is set
\* for regular files only
DeferredEntry(s3, header_pos, e, resolved_source_path, avail) ==
    DeferredData(IF e.file_type = REGULAR_FILE
                 THEN FlushedData(
                        write_regular_file_dynamic_size(s3, resolved_source_path, avail))
                 ELSE [s |-> s3, size |-> e.size],
                 header_pos, e)

\* The deferred branch: s2 is the writer after file_tellg()
DeferredPlaceholder(s2, e, resolved_source_path, avail) ==
    DeferredEntry(write(s2, ZeroBlock, TRUE), s2.file_.pos, e, resolved_source_path,
                  avail)

\* The other branch after write_header_data()
DirectData(s2, e, resolved_source_path, avail) ==
    IF s2.exc # "none" \/ e.file_type # REGULAR_FILE THEN s2
    ELSE write_regular_file_const_size(s2, resolved_source_path, e.size, avail)

\* tarfile::read_from_filesystem_write_to_tar from the insertion into
\* stored_inos_ on (s1 is the writer after it); e is the entry found, avail
\* the number of bytes the source delivers when it is read
WriteEntry(s1, e, resolved_source_path, defer_header_writing, avail) ==
    IF defer_header_writing
    THEN DeferredPlaceholder(file_tell(FlushIfLz4(s1)), e, resolved_source_path, avail)
    ELSE DirectData(write_header(s1, e), e, resolved_source_path, avail)

\* tarfile::read_from_filesystem_write_to_tar from the switch on; defer is
\* defer_header_writing
FoundEntry(s, file_type, link_name, resolved_source_path, target_path, defer, avail) ==
    IF ~is_file_type_supported(s, file_type) THEN s
    ELSE WriteEntry(
           InsertIno(s, resolved_source_path, target_path),
           Entry(target_path,
                 IF file_type = SYMBOLIC_LINK THEN all_all
                 ELSE mode_of(resolved_source_path),
                 file_owner(resolved_source_path), file_group(resolved_source_path),
                 IF file_type = REGULAR_FILE THEN file_size(resolved_source_path)
                 ELSE 0,
                 mod_time(resolved_source_path), file_type,
                 IF file_type \in {CHARACTER_SPECIAL_FILE, BLOCK_SPECIAL_FILE}
                 THEN major_minor(resolved_source_path).major ELSE 0,
                 IF file_type \in {CHARACTER_SPECIAL_FILE, BLOCK_SPECIAL_FILE}
                 THEN major_minor(resolved_source_path).minor ELSE 0,
                 link_name),
           resolved_source_path, defer, avail)

\* tarfile::read_from_filesystem_write_to_tar from defer_header_writing to
\* the switch: type0 is the type of resolved_source_path, equivalent what
\* file_equivalent_present answered (NoEquivalent if it was not asked)
Classified(s, type0, equivalent, resolved_source_path, target_path, avail) ==
    FoundEntry(s,
               IF equivalent # NoEquivalent THEN HARD_LINK ELSE type0,
               IF equivalent # NoEquivalent THEN equivalent
               ELSE IF type0 = SYMBOLIC_LINK THEN read_symlink(resolved_source_path)
               ELSE <<>>,
               resolved_source_path, target_path,
               type0 = REGULAR_FILE /\ s.mode_ = "file_output", avail)

\* tarfile::read_from_filesystem_write_to_tar once resolved_source_path is
\* known
Resolved(s, resolved_source_path, target_path, avail) ==
    IF ~file_exists(resolved_source_path) THEN Throw(s, "invalid_argument")
    ELSE IF type_flag(resolved_source_path) = UNSUPPORTED_TYPE
         THEN Throw(s, "invalid_argument")
    \* std::ifstream(source_path) opens the file resolved_source_path names
    ELSE IF type_flag(resolved_source_path) \in {REGULAR_FILE, HARD_LINK}
                /\ ~ifstream_good(resolved_source_path)
         THEN Throw(s, "invalid_argument")
    ELSE Classified(s, type_flag(resolved_source_path),
                    IF type_flag(resolved_source_path) \in {REGULAR_FILE, HARD_LINK}
                    THEN file_equivalent_present(resolved_source_path, s.stored_inos_)
                    ELSE NoEquivalent,
                    resolved_source_path, target_path, avail)

\* The file an add_from_filesystem call reads: resolved_source_path of
\* read_from_filesystem_write_to_tar
SourceOf(source_path, read_symlinks) ==
    IF file_exists(source_path) /\ read_symlinks
           /\ type_flag(source_path) = SYMBOLIC_LINK
    THEN realpath(source_path) ELSE source_path

\* read_from_filesystem_write_to_tar without the test of file_name_
read_from_filesystem_write_to_tar_of_any_source(s, source_path, target_path, read_symlinks, avail) ==
    IF s.exc # "none" THEN s
    ELSE IF ~file_exists(source_path) THEN Throw(s, "invalid_argument")
    ELSE IF type_flag(source_path) = UNSUPPORTED_TYPE THEN Throw(s, "invalid_argument")
    ELSE Resolved(s, SourceOf(source_path, read_symlinks), target_path, avail)

\* tarfile::read_from_filesystem_write_to_tar; a writer with an exception
\* in flight does not reach it
read_from_filesystem_write_to_tar(s, source_path, target_path, read_symlinks, avail) ==
    IF s.exc # "none" THEN s
    ELSE IF ~file_exists(source_path) THEN Throw(s, "invalid_argument")
    ELSE IF source_path = s.file_name_ THEN Throw(s, "invalid_argument")
    ELSE IF type_flag(source_path) = UNSUPPORTED_TYPE THEN Throw(s, "invalid_argument")
    ELSE Resolved(s, SourceOf(source_path, read_symlinks), target_path, avail)

\* The entry a call has written: its header is the last header block handed
\* to write that is not a placeholder (a placeholder, all zero, comes first
\* on the deferred paths), its data the other blocks in the order written
RECURSIVE Concat(_)
Concat(blocks) ==
    IF blocks = <<>> THEN <<>>
    ELSE IF Len(blocks) = 1 THEN blocks[1]
    ELSE LET mid == Len(blocks) \div 2
         IN  Concat(SubSeq(blocks, 1, mid)) \o Concat(SubSeq(blocks, mid + 1, Len(blocks)))

HeaderIndexes(cur) == {i \in 1..Len(cur) : cur[i].is_header /\ cur[i].data # ZeroBlock}

EntryWritten(cur) ==
    LET last == CHOOSE i \in HeaderIndexes(cur) : \A j \in HeaderIndexes(cur) : j <= i
        data == SelectSeq(cur, LAMBDA w : ~w.is_header)
    IN  [header |-> cur[last].data,
         data |-> <<>> \o [i \in 1..Len(data) |-> data[i].data]]

\* The return of a call of the admission API: unless a streaming entry stays
\* in progress, the blocks noted in s.cur become an admitted entry if the
\* call returned normally and wrote a header, and are forgotten otherwise.
\* src is the file the entry was read from (<<>> if it was read from none).
EndCall(s, src) ==
    IF s.stream_file_header_pos_ >= 0 THEN s
    ELSE [s EXCEPT
            !.admitted = IF s.exc = "none" /\ HeaderIndexes(s.cur) # {}
                         THEN Append(@, [header |-> EntryWritten(s.cur).header,
                                         data |-> EntryWritten(s.cur).data,
                                         src |-> src])
                         ELSE @,
            !.cur = <<>>]

\* The checks on target_path shared by add_from_filesystem(source, target)
\* and add_from_filesystem_recursive(source, target)
InvalidTarget(target_path) ==
    \/ Contains(target_path, <<DOT, DOT, SLASH>>)
    \/ Contains(target_path, <<SLASH, DOT, DOT>>)
    \/ target_path = <<DOT, DOT>>
    \/ target_path = <<>>

\* The bytes a source delivers when it does not change while it is read
Unchanged(path) == file_size(path)

\* tarfile::add_from_filesystem(filename, read_symlinks)
add_from_filesystem(s, filename, read_symlinks, avail) ==
    EndCall(read_from_filesystem_write_to_tar(check_state_and_flush(s), filename,
                                              filename, read_symlinks, avail),
            SourceOf(filename, read_symlinks))

\* tarfile::add_from_filesystem(source_path, target_path, read_symlinks)
add_from_filesystem_to(s, source_path, target_path, read_symlinks, avail) ==
    EndCall(
      IF InvalidTarget(target_path) THEN Throw(s, "invalid_argument")
      ELSE IF type_flag(source_path) = UNSUPPORTED_TYPE THEN Throw(s, "invalid_argument")
      ELSE IF type_flag(source_path) # DIRECTORY /\ EndsWithSlash(target_path)
           THEN Throw(s, "invalid_argument")
      ELSE read_from_filesystem_write_to_tar(check_state_and_flush(s), source_path,
                                             target_path, read_symlinks, avail),
      SourceOf(source_path, read_symlinks))

\* The lambda of add_from_filesystem_recursive applied to the visited paths
\* from the k-th on; an exception ends the walk.  from and to are the
\* prefix replaced and its replacement.
RECURSIVE Walk(_, _, _, _, _, _, _)
Walk(s, paths, k, from, to, retarget, read_symlinks) ==
    IF k > Len(paths) \/ s.exc # "none" THEN s
    ELSE LET callback_path == paths[k]
             target == to \o SubSeq(callback_path, Len(from) + 1, Len(callback_path))
             s1 == IF retarget
                   THEN add_from_filesystem_to(s, callback_path, target, read_symlinks,
                                               Unchanged(callback_path))
                   ELSE add_from_filesystem(s, callback_path, read_symlinks,
                                            Unchanged(callback_path))
         IN  Walk(s1, paths, k + 1, from, to, retarget, read_symlinks)

\* tarfile::add_from_filesystem_recursive(path, read_symlinks)
add_from_filesystem_recursive(s, path, read_symlinks) ==
    IF type_flag(path) = UNSUPPORTED_TYPE THEN Throw(s, "invalid_argument")
    ELSE Walk(s, iterateDirectory(path), 1, path, path, FALSE, read_symlinks)

\* tarfile::add_from_filesystem_recursive(source_path, target_path, read_symlinks)
add_from_filesystem_recursive_to(s, source_path, target_path, read_symlinks) ==
    IF InvalidTarget(target_path) THEN Throw(s, "invalid_argument")
    ELSE IF type_flag(source_path) = UNSUPPORTED_TYPE THEN Throw(s, "invalid_argument")
    ELSE LET stripped == IF EndsWithSlash(target_path)
                         THEN SubSeq(target_path, 1, Len(target_path) - 1)
                         ELSE target_path
         IN  Walk(s, iterateDirectory(source_path), 1, source_path, stripped, TRUE,
                  read_symlinks)

\* tarfile::add_symlink, add_hardlink, add_character_special_file,
\* add_block_special_file, add_fifo, add_directory: e is the entry each of
\* them hands to write_header
add_entry(s, e) ==
    EndCall(write_header(check_state_and_flush(s), e), <<>>)

add_symlink(s, file_name, link_name, uid, gid, time) ==
    add_entry(s, Entry(link_name, all_all, uid, gid, 0, time, SYMBOLIC_LINK, 0, 0, file_name))

add_hardlink(s, file_name, link_name, uid, gid, time) ==
    add_entry(s, Entry(link_name, all_all, uid, gid, 0, time, HARD_LINK, 0, 0, file_name))

add_character_special_file(s, name, mode, uid, gid, size, time, dev_major, dev_minor) ==
    add_entry(s, Entry(name, mode, uid, gid, size, time, CHARACTER_SPECIAL_FILE,
                       dev_major, dev_minor, <<>>))

add_block_special_file(s, name, mode, uid, gid, size, time, dev_major, dev_minor) ==
    add_entry(s, Entry(name, mode, uid, gid, size, time, BLOCK_SPECIAL_FILE,
                       dev_major, dev_minor, <<>>))

add_fifo(s, name, mode, uid, gid, time) ==
    add_entry(s, Entry(name, mode, uid, gid, 0, time, FIFO, 0, 0, <<>>))

add_directory(s, dirname, mode, uid, gid, mod_time_) ==
    add_entry(s, Entry(dirname, mode, uid, gid, 0, mod_time_, DIRECTORY, 0, 0, <<>>))

\* tarfile::add_file_streaming from file_tellg() on; s.streamed notes the
\* bytes the entry has received
StreamPlaceholder(s2) ==
    write([s2 EXCEPT !.stream_file_header_pos_ = s2.file_.pos, !.streamed = <<>>],
          ZeroBlock, TRUE)

\* tarfile::add_file_streaming after check_state_and_flush()
StreamBegin(s1) ==
    IF s1.exc # "none" THEN s1 ELSE StreamPlaceholder(file_tell(s1))

\* add_file_streaming without the test of mode_
add_file_streaming_in_any_mode(s) ==
    StreamBegin(check_state_and_flush(s))

\* tarfile::add_file_streaming
add_file_streaming(s) ==
    IF s.mode_ # "file_output" THEN Throw(s, "logic_error")
    ELSE StreamBegin(check_state_and_flush(s))

\* tarfile::add_file_streaming_data, the loop over whole blocks of data from
\* the 0-based index pos on
RECURSIVE WriteWholeBlocks(_, _, _)
WriteWholeBlocks(s, data, pos) ==
    IF Len(data) - pos >= BLOCK_SIZE
    THEN WriteWholeBlocks(write(s, SubSeq(data, pos + 1, pos + BLOCK_SIZE), FALSE),
                          data, pos + BLOCK_SIZE)
    ELSE [s |-> s, pos |-> pos]

\* "store remaining data" that copies to the start of stream_block_
StoreRemainingAtStart(w, data) ==
    [w.s EXCEPT
        !.stream_block_ =
            SubSeq(data, w.pos + 1, Len(data))
                \o SubSeq(@, Len(data) - w.pos + 1, BLOCK_SIZE),
        !.stream_block_used_ = @ + Len(data) - w.pos,
        !.streamed = @ \o data]

\* tarfile::add_file_streaming_data, "store remaining data for next call or
\* stream_file_complete": w is the writer and the index the loop stopped at
StoreRemaining(w, data) ==
    [w.s EXCEPT
        !.stream_block_ =
            SubSeq(@, 1, w.s.stream_block_used_)
                \o SubSeq(data, w.pos + 1, Len(data))
                \o SubSeq(@, w.s.stream_block_used_ + Len(data) - w.pos + 1, BLOCK_SIZE),
        !.stream_block_used_ = @ + Len(data) - w.pos,
        !.streamed = @ \o data]

\* The same filling a block only when the saved and the new data are more
\* than a block
StreamDataOverfull(s, data) ==
    LET fill == s.stream_block_used_ + Len(data) > BLOCK_SIZE
        copy_from_new_data == BLOCK_SIZE - s.stream_block_used_
        block == SubSeq(s.stream_block_, 1, s.stream_block_used_)
                     \o SubSeq(data, 1, copy_from_new_data)
    IN  StoreRemaining(
          WriteWholeBlocks(
            IF fill THEN [write(s, block, FALSE) EXCEPT !.stream_block_used_ = 0]
            ELSE s,
            data, IF fill THEN copy_from_new_data ELSE 0),
          data)

\* tarfile::add_file_streaming_data after its two tests; s.streamed notes
\* the bytes received
StreamData(s, data) ==
    LET fill == s.stream_block_used_ + Len(data) >= BLOCK_SIZE
        copy_from_new_data == BLOCK_SIZE - s.stream_block_used_
        block == SubSeq(s.stream_block_, 1, s.stream_block_used_)
                     \o SubSeq(data, 1, copy_from_new_data)
    IN  StoreRemaining(
          WriteWholeBlocks(
            IF fill THEN [write(s, block, FALSE) EXCEPT !.stream_block_used_ = 0]
            ELSE s,
            data, IF fill THEN copy_from_new_data ELSE 0),
          data)

\* add_file_streaming_data without the test of stream_file_header_pos_
add_file_streaming_data_without_entry(s, data) ==
    IF ~is_open(s) THEN Throw(s, "logic_error")
    ELSE StreamData(s, data)

\* tarfile::add_file_streaming_data
add_file_streaming_data(s, data) ==
    IF ~is_open(s) THEN Throw(s, "logic_error")
    ELSE IF s.stream_file_header_pos_ < 0 THEN Throw(s, "logic_error")
    ELSE StreamData(s, data)

\* The same without file_seekp(stream_pos): the put position stays behind
\* the header
BackpatchWithoutSeekBack(s1, e) ==
    write_header([file_seekp(s1, s1.stream_file_header_pos_)
                      EXCEPT !.stream_file_header_pos_ = -1], e)

\* tarfile::stream_file_complete from file_seekp(stream_file_header_pos_)
\* on: s1 is the writer after file_tellp()
BackpatchAt(s1, e) ==
    SeekUnlessThrown(
        write_header([file_seekp(s1, s1.stream_file_header_pos_)
                          EXCEPT !.stream_file_header_pos_ = -1], e),
        s1.file_.pos)

\* tarfile::stream_file_complete, from the lz4_flush() before file_tellp() on
BackpatchHeader(s, e) == BackpatchAt(file_tell(FlushIfLz4(s)), e)

\* stream_file_complete that does not write the partly filled last block
stream_file_complete_without_tail(s, filename, mode, uid, gid, size, mod_time_) ==
    IF s.stream_file_header_pos_ < 0 THEN Throw(s, "logic_error")
    ELSE EndCall(BackpatchHeader([s EXCEPT !.stream_block_used_ = 0],
              Entry(filename, mode, uid, gid, size, mod_time_, REGULAR_FILE, 0, 0, <<>>)),
              <<>>)

\* tarfile::stream_file_complete
stream_file_complete(s, filename, mode, uid, gid, size, mod_time_) ==
    IF s.stream_file_header_pos_ < 0 THEN Throw(s, "logic_error")
    ELSE
      LET block == SubSeq(s.stream_block_, 1, s.stream_block_used_)
                       \o Zeros(BLOCK_SIZE - s.stream_block_used_)
          s1 == IF s.stream_block_used_ > 0
                THEN write([s EXCEPT !.stream_block_used_ = 0], block, FALSE)
                ELSE s
      IN  EndCall(BackpatchHeader(s1,
              Entry(filename, mode, uid, gid, size, mod_time_, REGULAR_FILE, 0, 0, <<>>)),
              <<>>)

\* ------------------------------------------------------------------------
\* State: the data members of one tarfile, what its callback has received,
\* and the last call made on it
\* ------------------------------------------------------------------------
VARIABLES type_, mode_, file_name_, file_, file_buffer_, callback_, emitted,
          stream_file_header_pos_, stream_block_, stream_block_used_,
          stored_inos_, stored_files_, cur, admitted, streamed, call, ncalls, maxcalls,
          compression_, lz4_ctx_, lz4_out_buf_, lz4_out_buf_pos_

vars == <<type_, mode_, file_name_, file_, file_buffer_, callback_, emitted,
          stream_file_header_pos_, stream_block_, stream_block_used_,
          stored_inos_, stored_files_, cur, admitted, streamed, call, ncalls, maxcalls,
          compression_, lz4_ctx_, lz4_out_buf_, lz4_out_buf_pos_>>

Self ==
    [type_ |-> type_, mode_ |-> mode_, file_name_ |-> file_name_, file_ |-> file_,
     file_buffer_ |-> file_buffer_, callback_ |-> callback_, emitted |-> emitted,
     stream_file_header_pos_ |-> stream_file_header_pos_,
     stream_block_ |-> stream_block_, stream_block_used_ |-> stream_block_used_,
     stored_inos_ |-> stored_inos_, stored_files_ |-> stored_files_,
     cur |-> cur, admitted |-> admitted, streamed |-> streamed, exc |-> "none",
     seeks |-> 0, throws_at |-> 0, thrown |-> FALSE,
     compression_ |-> compression_, lz4_ctx_ |-> lz4_ctx_,
     lz4_out_buf_ |-> lz4_out_buf_, lz4_out_buf_pos_ |-> lz4_out_buf_pos_]

\* The call op(args) returns, or throws r.exc, and leaves the writer as r;
\* maxcalls bounds the number of calls made
Return(r, op, args) ==
    /\ ncalls < maxcalls
    /\ maxcalls' = maxcalls
    /\ type_' = r.type_
    /\ mode_' = r.mode_
    /\ file_name_' = r.file_name_
    /\ file_' = r.file_
    /\ file_buffer_' = r.file_buffer_
    /\ callback_' = r.callback_
    /\ emitted' = r.emitted
    /\ stream_file_header_pos_' = r.stream_file_header_pos_
    /\ stream_block_' = r.stream_block_
    /\ stream_block_used_' = r.stream_block_used_
    /\ stored_inos_' = r.stored_inos_
    /\ stored_files_' = r.stored_files_
    /\ cur' = r.cur
    /\ admitted' = r.admitted
    /\ streamed' = r.streamed
    /\ compression_' = r.compression_
    /\ lz4_ctx_' = r.lz4_ctx_
    /\ lz4_out_buf_' = r.lz4_out_buf_
    /\ lz4_out_buf_pos_' = r.lz4_out_buf_pos_
    /\ call' = [op |-> op, exc |-> r.exc, args |-> args, seeks |-> r.seeks,
                thrown |-> r.thrown]
    /\ ncalls' = ncalls + 1

\* std::unique_ptr<lz4_ctx> lz4_ctx_ of a writer that does not compress
NoLz4Ctx == [tmpIn |-> <<>>, blockCompression |-> "compressed", ratio |-> 1]

\* tarfile(filename, type) and tarfile(callback, type), for a run of at most
\* limit calls
Constructed(type, mode, limit) ==
    /\ maxcalls = limit
    /\ compression_ = "none"
    /\ lz4_ctx_ = NoLz4Ctx
    /\ lz4_out_buf_ = <<>>
    /\ lz4_out_buf_pos_ = 0
    /\ type_ = type
    /\ mode_ = mode
    /\ file_name_ = IF mode = "file_output" THEN P_o ELSE <<>>
    /\ file_ = [is_open |-> mode = "file_output", content |-> <<>>, pos |-> 0]
    /\ file_buffer_ = <<>>
    /\ callback_ = (mode = "stream_output")
    /\ emitted = <<>>
    /\ stream_file_header_pos_ = -1
    /\ stream_block_ = ZeroBlock
    /\ stream_block_used_ = 0
    /\ stored_inos_ = <<>>
    /\ stored_files_ = {}
    /\ cur = <<>>
    /\ admitted = <<>>
    /\ streamed = <<>>
    /\ call = [op |-> "tarfile", exc |-> "none", args |-> <<>>, seeks |-> 0,
               thrown |-> FALSE]
    /\ ncalls = 0

Init ==
    \E type \in {"unix_v7", "ustar"}, mode \in {"file_output", "stream_output"} :
        Constructed(type, mode, MaxCalls)

\* The bytes of a chunk of n bytes handed to add_file_streaming_data: the
\* next n bytes of one fixed stream
StreamByte(k) == (k % 251) + 1
Chunk(n) == <<>> \o [i \in 1..n |-> StreamByte(Len(streamed) + i - 1)]

AddFromFilesystem(filename, read_symlinks, avail) ==
    Return(add_from_filesystem(Self, filename, read_symlinks, avail),
           "add_from_filesystem",
           [source |-> filename, target |-> filename, read_symlinks |-> read_symlinks,
            avail |-> avail])

AddFromFilesystemTo(source_path, target_path, read_symlinks, avail) ==
    Return(add_from_filesystem_to(Self, source_path, target_path, read_symlinks, avail),
           "add_from_filesystem",
           [source |-> source_path, target |-> target_path,
            read_symlinks |-> read_symlinks, avail |-> avail])

AddFromFilesystemRecursive(path, read_symlinks) ==
    Return(add_from_filesystem_recursive(Self, path, read_symlinks),
           "add_from_filesystem_recursive",
           [source |-> path, target |-> path, read_symlinks |-> read_symlinks])

AddFromFilesystemRecursiveTo(source_path, target_path, read_symlinks) ==
    Return(add_from_filesystem_recursive_to(Self, source_path, target_path, read_symlinks),
           "add_from_filesystem_recursive",
           [source |-> source_path, target |-> target_path,
            read_symlinks |-> read_symlinks])

AddSymlink(file_name, link_name) ==
    Return(add_symlink(Self, file_name, link_name, 0, 0, 1), "add_symlink",
           [name |-> link_name, link |-> file_name])

AddHardlink(file_name, link_name) ==
    Return(add_hardlink(Self, file_name, link_name, 0, 0, 1), "add_hardlink",
           [name |-> link_name, link |-> file_name])

AddCharacterSpecialFile(name) ==
    Return(add_character_special_file(Self, name, 420, 0, 0, 0, 1, 4, 2),
           "add_character_special_file", [name |-> name])

AddBlockSpecialFile(name) ==
    Return(add_block_special_file(Self, name, 420, 0, 0, 0, 1, 8, 1),
           "add_block_special_file", [name |-> name])

AddFifo(name) ==
    Return(add_fifo(Self, name, 420, 0, 0, 1), "add_fifo", [name |-> name])

AddDirectory(dirname) ==
    Return(add_directory(Self, dirname, 493, 0, 0, 1), "add_directory",
           [name |-> dirname])

AddFileStreaming ==
    Return(add_file_streaming(Self), "add_file_streaming", <<>>)

AddFileStreamingData(n) ==
    Return(add_file_streaming_data(Self, Chunk(n)), "add_file_streaming_data",
           [size |-> n])

\* The descriptor handed to stream_file_complete
StreamDescriptor(filename, size) ==
    [name |-> filename, mode |-> 420, uid |-> 0, gid |-> 0, size |-> size, time |-> 1]

StreamFileComplete(filename, size) ==
    Return(stream_file_complete(Self, filename, 420, 0, 0, size, 1),
           "stream_file_complete", StreamDescriptor(filename, size))

Close ==
    Return(close(Self), "close", <<>>)

\* Names given to the entries: "n", "d" and "t"
N_n == <<110>>
N_d == <<100>>
N_t == <<116>>

Next ==
    \/ AddFromFilesystem(P_a, FALSE, Unchanged(P_a))
    \/ AddFromFilesystemTo(P_b, N_n, FALSE, Unchanged(P_b))
    \/ AddFromFilesystemRecursive(P_d, FALSE)
    \/ AddFromFilesystemRecursiveTo(P_d, N_t, FALSE)
    \/ AddSymlink(N_t, N_n)
    \/ AddHardlink(N_t, N_n)
    \/ AddCharacterSpecialFile(N_n)
    \/ AddBlockSpecialFile(N_n)
    \/ AddFifo(N_n)
    \/ AddDirectory(N_d)
    \/ AddFileStreaming
    \/ AddFileStreamingData(600)
    \/ StreamFileComplete(N_n, Len(streamed))
    \/ Close

Spec == Init /\ [][Next]_vars

\* ------------------------------------------------------------------------
\* What the output holds
\* ------------------------------------------------------------------------

\* The bytes of the output file, those still in file_buffer_ included
FileBytes ==
    IF file_.is_open THEN FileWriteAt(file_, file_buffer_).content ELSE file_.content

\* The bytes the callback has received, or the output file holds
Archive ==
    IF mode_ = "file_output" THEN FileBytes
    ELSE Concat(<<>> \o [i \in 1..Len(emitted) |-> emitted[i].data])

\* The admission calls other than add_file_streaming_data and
\* stream_file_complete
OtherAdmissions ==
    {"add_from_filesystem", "add_from_filesystem_recursive", "add_symlink",
     "add_hardlink", "add_character_special_file", "add_block_special_file",
     "add_fifo", "add_directory", "add_file_streaming"}

\* ------------------------------------------------------------------------
\* C1
\* ------------------------------------------------------------------------

\* C1: in File mode, once the writer has been closed, the length of the
\* output is a multiple of 512 and its last two 512-byte blocks are entirely
\* zero, whatever admission calls came before the close.
C1_ClosedFileEndsWithTwoZeroBlocks ==
    (mode_ = "file_output" /\ ~file_.is_open) =>
        /\ Len(file_.content) % BLOCK_SIZE = 0
        /\ Len(file_.content) >= 2 * BLOCK_SIZE
        /\ SubSeq(file_.content, Len(file_.content) - 2 * BLOCK_SIZE + 1,
                  Len(file_.content)) = Zeros(2 * BLOCK_SIZE)

\* ------------------------------------------------------------------------
\* C2
\* ------------------------------------------------------------------------

\* C2: while a streaming entry is in progress, every admission call other
\* than add_file_streaming_data and stream_file_complete throws, hands no
\* byte to the output and leaves the streaming entry in progress.
C2_OtherAdmissionsRejectedWhileStreaming ==
    [][(stream_file_header_pos_ >= 0 /\ ncalls' # ncalls
            /\ call'.op \in OtherAdmissions)
        => /\ call'.exc # "none"
           /\ Archive' = Archive
           /\ emitted' = emitted
           /\ stream_file_header_pos_' = stream_file_header_pos_
           /\ streamed' = streamed]_vars

\* A streaming entry is in progress and an add_from_filesystem has just been
\* rejected
C2_RejectedWhileStreaming ==
    /\ stream_file_header_pos_ >= 0
    /\ call.op = "add_from_filesystem"
    /\ call.exc = "logic_error"

\* ------------------------------------------------------------------------
\* Streaming one entry in chunks (C3, C6)
\* ------------------------------------------------------------------------
\* The sizes of the chunks streamed: empty, smaller than a block, the rest
\* of a block, larger than a block
ChunkSizes == {0, 100, 412, 600}

\* The sizes declared to stream_file_complete besides the number of bytes
\* streamed
DeclaredSizes == {0, 1024}

InitStream ==
    \E type \in {"unix_v7", "ustar"} : Constructed(type, "file_output", MaxStreamCalls)

NextStream ==
    \/ AddFileStreaming
    \/ \E n \in ChunkSizes : AddFileStreamingData(n)
    \/ \E size \in {Len(streamed)} \cup DeclaredSizes : StreamFileComplete(N_n, size)

SpecStream == InitStream /\ [][NextStream]_vars

\* A step in which stream_file_complete returns normally on an open writer
StreamCompleted ==
    /\ ncalls' # ncalls
    /\ call'.op = "stream_file_complete"
    /\ call'.exc = "none"
    /\ file_.is_open

\* The number of blocks between the header of the entry a step completes and
\* the place where the next header or the end-of-archive blocks go
DataBlocksOfCompleted ==
    (file_'.pos - stream_file_header_pos_ - BLOCK_SIZE) \div BLOCK_SIZE

\* C3 as stated: a streamed entry has ceil(d.size / 512) data blocks between
\* its header and the next header or the end-of-archive blocks, for every
\* descriptor d passed to stream_file_complete.
C3_DataBlocksFromDeclaredSize ==
    [][StreamCompleted => DataBlocksOfCompleted = CeilBlocks(call'.args.size)]_vars

\* C3 amended: a streamed entry has ceil(T / 512) data blocks between its
\* header and the next header or the end-of-archive blocks, T being the
\* number of bytes passed to add_file_streaming_data; that is
\* ceil(d.size / 512) whenever d.size = T.
C3_DataBlocksFromStreamedBytes ==
    [][StreamCompleted =>
          /\ DataBlocksOfCompleted = CeilBlocks(Len(streamed))
          /\ (file_'.pos - stream_file_header_pos_) % BLOCK_SIZE = 0
          /\ (call'.args.size = Len(streamed)
                => DataBlocksOfCompleted = CeilBlocks(call'.args.size))]_vars

\* An entry of more than one block was completed with a declared size other
\* than the number of bytes streamed
C3_CompletedWithOtherSize ==
    /\ call.op = "stream_file_complete"
    /\ call.exc = "none"
    /\ file_.is_open
    /\ Len(streamed) > BLOCK_SIZE
    /\ Len(streamed) % BLOCK_SIZE # 0
    /\ call.args.size # Len(streamed)

\* The header write_header builds from the descriptor d of a regular file
HeaderOf(d) ==
    HeaderBlock(Self,
                Entry(d.name, d.mode, d.uid, d.gid, d.size, d.time, REGULAR_FILE,
                      0, 0, <<>>),
                relative_path(d.name), <<>>)

\* C6: add_file_streaming, add_file_streaming_data for the chunks of any
\* split of a byte sequence B (empty chunks, chunks smaller and larger than
\* 512 bytes), and stream_file_complete(d) with d.size = |B| leave, from the
\* place the entry began, the header built from d followed by B zero-padded
\* to a multiple of 512, and leave the bytes before that place alone: the
\* archive does not depend on the split.
C6_StreamedBytesIndependentOfChunking ==
    [][(StreamCompleted /\ call'.args.size = Len(streamed)) =>
          /\ SubSeq(file_'.content, stream_file_header_pos_ + 1, file_'.pos)
                = HeaderOf(call'.args) \o streamed
                    \o Zeros(CeilBlocks(Len(streamed)) * BLOCK_SIZE - Len(streamed))
          /\ SubSeq(file_'.content, 1, stream_file_header_pos_)
                = SubSeq(FileBytes, 1, stream_file_header_pos_)]_vars

\* An entry streamed in three chunks, two of them smaller than a block and
\* the bytes of all three more than a block, was completed with its size
C6_CompletedInSeveralChunks ==
    /\ call.op = "stream_file_complete"
    /\ call.exc = "none"
    /\ file_.is_open
    /\ ncalls = MaxStreamCalls
    /\ call.args.size = Len(streamed)
    /\ Len(streamed) = 800

\* ------------------------------------------------------------------------
\* A regular file read in Callback mode while it changes (C4, C5)
\* ------------------------------------------------------------------------

\* The numbers of bytes /a delivers while it is read: fewer than, as many
\* as and more than its size 600 when it was added
DeliveredSizes == {0, 88, 512, 600, 700, 1100}

InitConst ==
    \E type \in {"unix_v7", "ustar"} : Constructed(type, "stream_output", MaxCalls)

NextConst ==
    \/ \E avail \in DeliveredSizes : AddFromFilesystem(P_a, FALSE, avail)
    \/ \E avail \in DeliveredSizes, target_path \in {N_n, N_t} :
           AddFromFilesystemTo(P_a, target_path, FALSE, avail)

SpecConst == InitConst /\ [][NextConst]_vars

\* The first n bytes of a file
SourceBytes(path, n) == <<>> \o [i \in 1..n |-> FileByte(ino(path), i - 1)]

\* A step in which add_from_filesystem stores a regular file in Callback
\* mode: write_regular_file_const_size writes its data
ConstSizeAdded ==
    /\ ncalls' # ncalls
    /\ call'.op = "add_from_filesystem"
    /\ call'.exc = "none"
    /\ mode_ = "stream_output"
    /\ Len(admitted') = Len(admitted) + 1
    /\ admitted'[Len(admitted')].header[UNIX_V7_USTAR_HEADER_POS_TYPEFLAG + 1]
           = REGULAR_FILE

\* C4: a regular file of declared size S written by the const-size strategy
\* gets exactly ceil(S / 512) data blocks after its header, whether the
\* source delivers S bytes, fewer or more.
C4_ConstSizeEmitsDeclaredBlocks ==
    [][ConstSizeAdded =>
          Len(emitted') - Len(emitted) = 1 + CeilBlocks(file_size(call'.args.source))]_vars

\* C5: the data blocks of such an entry, concatenated, start with the first
\* S bytes of the source (all of its bytes if it delivers fewer) and every
\* byte after them, to the end of the last block, is zero.
C5_ConstSizeDataIsSourcePrefix ==
    [][ConstSizeAdded =>
          LET n == Min(file_size(call'.args.source), call'.args.avail)
              data == Concat(admitted'[Len(admitted')].data)
          IN  /\ Len(data) >= n
              /\ SubSeq(data, 1, n) = SourceBytes(call'.args.source, n)
              /\ SubSeq(data, n + 1, Len(data)) = Zeros(Len(data) - n)]_vars

\* ------------------------------------------------------------------------
\* Files that share an inode (C7, C8)
\* ------------------------------------------------------------------------

\* The fields of a header block as a reader finds them
HeaderName(h) ==
    SubSeq(h, UNIX_V7_USTAR_HEADER_POS_NAME + 1,
           UNIX_V7_USTAR_HEADER_POS_NAME + UNIX_V7_USTAR_HEADER_LEN_NAME)
HeaderSizeIsZero(h) ==
    \A i \in 1..UNIX_V7_USTAR_HEADER_LEN_SIZE :
        h[UNIX_V7_USTAR_HEADER_POS_SIZE + i] \in {CH_0, SPACE, 0}
HeaderTypeflag(h) == h[UNIX_V7_USTAR_HEADER_POS_TYPEFLAG + 1]
HeaderLinkName(h) ==
    SubSeq(h, UNIX_V7_USTAR_HEADER_POS_LINKNAME + 1,
           UNIX_V7_USTAR_HEADER_POS_LINKNAME + UNIX_V7_USTAR_HEADER_LEN_LINKNAME)

NextLinks ==
    \/ \E filename \in {P_a, P_b, P_c, P_l}, read_symlinks \in BOOLEAN :
           AddFromFilesystem(filename, read_symlinks, Unchanged(filename))
    \/ \E source_path \in {P_a, P_b}, target_path \in {N_n, N_t} :
           AddFromFilesystemTo(source_path, target_path, FALSE, Unchanged(source_path))

SpecLinks == Init /\ [][NextLinks]_vars

\* The admitted entries that store, as a regular file, a file with inode
\* number i
StoredRegular(i) ==
    {k \in 1..Len(admitted) :
        /\ admitted[k].src # <<>>
        /\ type_flag(admitted[k].src) = REGULAR_FILE
        /\ ino(admitted[k].src) = i
        /\ HeaderTypeflag(admitted[k].header) = REGULAR_FILE}

\* A step in which add_from_filesystem is called, on an open writer, for a
\* regular file whose inode an earlier add_from_filesystem has stored
AddOfStoredInode ==
    /\ ncalls' # ncalls
    /\ call'.op = "add_from_filesystem"
    /\ is_open(Self)
    /\ type_flag(SourceOf(call'.args.source, call'.args.read_symlinks)) = REGULAR_FILE
    /\ StoredRegular(ino(SourceOf(call'.args.source, call'.args.read_symlinks))) # {}

\* C7: once add_from_filesystem has stored a regular file with inode I,
\* every later add_from_filesystem of a path with inode I, the same path or
\* another one and whatever the link count, returns normally and writes one
\* HARD_LINK header of size 0 and no data block.
C7_SameInodeBecomesHardLink ==
    [][AddOfStoredInode =>
          /\ call'.exc = "none"
          /\ Len(admitted') = Len(admitted) + 1
          /\ HeaderTypeflag(admitted'[Len(admitted')].header) = HARD_LINK
          /\ HeaderSizeIsZero(admitted'[Len(admitted')].header)
          /\ admitted'[Len(admitted')].data = <<>>]_vars

\* C8: the link name of a HARD_LINK entry that add_from_filesystem writes
\* for a file whose inode is already stored is the archive name of the
\* first entry stored for that inode, also if that entry was stored under a
\* target other than its source or through a followed symbolic link.
C8_LinkNameIsFirstArchiveName ==
    [][(/\ AddOfStoredInode
        /\ call'.exc = "none"
        /\ Len(admitted') = Len(admitted) + 1
        /\ HeaderTypeflag(admitted'[Len(admitted')].header) = HARD_LINK)
       => LET stored == StoredRegular(ino(admitted'[Len(admitted')].src))
              first == CHOOSE k \in stored : \A j \in stored : k <= j
          IN  HeaderLinkName(admitted'[Len(admitted')].header)
                  = HeaderName(admitted[first].header)]_vars

\* ------------------------------------------------------------------------
\* C9
\* ------------------------------------------------------------------------

\* The name field a header gets for the archive name store_name
NameFieldOf(store_name) ==
    write_into_block_str(Zeros(UNIX_V7_USTAR_HEADER_LEN_NAME), store_name,
                         UNIX_V7_USTAR_HEADER_POS_NAME, UNIX_V7_USTAR_HEADER_LEN_NAME)

\* A regular entry has been written under the archive name of name (a
\* directory of a unix_v7 archive has the type flag of a regular file and a
\* name that ends with '/')
RegularWritten(name) ==
    \E k \in 1..Len(admitted) :
        /\ HeaderTypeflag(admitted[k].header) = REGULAR_FILE
        /\ HeaderName(admitted[k].header) = NameFieldOf(relative_path(name))

\* A step in which a regular entry is offered to an open writer in the
\* state for it: stream_file_complete while an entry is streamed, or
\* add_from_filesystem, while none is, of a regular file with one link
\* whose inode is not stored yet
RegularOffered ==
    /\ ncalls' # ncalls
    /\ is_open(Self)
    /\ \/ /\ call'.op = "stream_file_complete"
          /\ stream_file_header_pos_ >= 0
          /\ ~EndsWithSlash(call'.args.name)
       \/ /\ call'.op = "add_from_filesystem"
          /\ stream_file_header_pos_ < 0
          /\ call'.args.source # file_name_
          /\ type_flag(call'.args.source) = REGULAR_FILE
          /\ get_stat(call'.args.source).nlink = 1
          /\ StoredRegular(ino(call'.args.source)) = {}
          /\ ~EndsWithSlash(call'.args.target)

\* The name the entry offered is to get
NameOffered ==
    IF call'.op = "stream_file_complete" THEN call'.args.name ELSE call'.args.target

\* C9: a regular entry is rejected as a duplicate, with nothing handed to
\* the output, if and only if a regular entry with the same archive name
\* (the name after relative_path) has been written; entries of other kinds
\* do not cause such a rejection.
C9_DuplicateIffRegularNameWritten ==
    [][RegularOffered =>
          /\ (call'.exc = "logic_error") <=> RegularWritten(NameOffered)
          /\ (call'.exc = "logic_error") => (Archive' = Archive /\ emitted' = emitted)
          /\ call'.exc \in {"none", "logic_error"}]_vars

\* ------------------------------------------------------------------------
\* C10
\* ------------------------------------------------------------------------

\* The records of the admitted entries, each header followed by its data
\* blocks, in the order in which their admissions returned
RECURSIVE Records(_)
Records(entries) ==
    IF entries = <<>> THEN <<>>
    ELSE IF Len(entries) = 1 THEN entries[1].header \o Concat(entries[1].data)
    ELSE LET mid == Len(entries) \div 2
         IN  Records(SubSeq(entries, 1, mid))
                 \o Records(SubSeq(entries, mid + 1, Len(entries)))

\* C10: the output begins with the records of the entries admitted so far,
\* in the order in which their admission calls returned normally, each
\* header immediately followed by its own data blocks: no operation, in File
\* mode with its backpatching or in Callback mode, writes before or inside
\* the record of an entry admitted earlier.  This holds in every state,
\* those of a closed writer among them.
C10_EntriesInAdmissionOrder ==
    /\ Len(Archive) >= Len(Records(admitted))
    /\ SubSeq(Archive, 1, Len(Records(admitted))) = Records(admitted)

\* A closed archive written in File mode that holds a backpatched regular
\* file followed by another entry
C10_ClosedWithBackpatchedEntry ==
    /\ mode_ = "file_output"
    /\ ~file_.is_open
    /\ Len(admitted) >= 2
    /\ admitted[1].data # <<>>

\* ------------------------------------------------------------------------
\* C11
\* ------------------------------------------------------------------------

\* C11: in Callback mode no call, of any operation and in any sequence,
\* performs a seek or a tell on the output, and add_file_streaming always
\* throws logic_error, hands no block to the callback and leaves the writer
\* as it was: open if it was open, with no streaming entry in progress.
C11_CallbackModeNeverSeeksNorStreams ==
    [][(mode_ = "stream_output" /\ ncalls' # ncalls) =>
          /\ call'.seeks = 0
          /\ file_' = file_
          /\ (call'.op = "add_file_streaming" =>
                /\ call'.exc = "logic_error"
                /\ emitted' = emitted
                /\ callback_' = callback_
                /\ stream_file_header_pos_' = -1
                /\ stream_file_header_pos_ = -1)]_vars

\* add_file_streaming has been rejected by an open writer in Callback mode
\* that holds an entry
C11_StreamingRejectedInCallbackMode ==
    /\ mode_ = "stream_output"
    /\ callback_
    /\ call.op = "add_file_streaming"
    /\ call.exc = "logic_error"
    /\ Len(admitted) > 0

\* ------------------------------------------------------------------------
\* C12
\* ------------------------------------------------------------------------

\* C12: on a closed writer every admission call, add_file_streaming,
\* add_file_streaming_data and stream_file_complete throws logic_error and
\* hands nothing to the output, also when the writer was closed while a
\* streaming entry was in progress.
C12_ClosedWriterRejectsEveryCall ==
    [][(~is_open(Self) /\ ncalls' # ncalls /\ call'.op # "close") =>
          /\ call'.exc = "logic_error"
          /\ Archive' = Archive
          /\ emitted' = emitted]_vars

\* ------------------------------------------------------------------------
\* C13
\* ------------------------------------------------------------------------

\* C13: on an open writer with no streaming entry in progress,
\* add_file_streaming_data and stream_file_complete throw logic_error, hand
\* no block to the output and leave the writer open, with no streaming entry
\* in progress and with stream_block_ and stream_block_used_ unchanged.
C13_StreamCallsRejectedWithoutEntry ==
    [][(/\ is_open(Self)
        /\ stream_file_header_pos_ < 0
        /\ ncalls' # ncalls
        /\ call'.op \in {"add_file_streaming_data", "stream_file_complete"})
       => /\ call'.exc = "logic_error"
          /\ Archive' = Archive
          /\ emitted' = emitted
          /\ file_' = file_
          /\ file_buffer_' = file_buffer_
          /\ callback_' = callback_
          /\ stream_file_header_pos_' = stream_file_header_pos_
          /\ stream_block_' = stream_block_
          /\ stream_block_used_' = stream_block_used_]_vars

\* add_file_streaming_data has been rejected by an open File-mode writer
\* that holds an entry and streams none
C13_DataRejectedWithoutEntry ==
    /\ mode_ = "file_output"
    /\ file_.is_open
    /\ stream_file_header_pos_ < 0
    /\ call.op = "add_file_streaming_data"
    /\ call.exc = "logic_error"
    /\ Len(admitted) > 0

\* ------------------------------------------------------------------------
\* A callback that throws (C14, C15)
\* ------------------------------------------------------------------------

\* The invocation, counted within one call, at which the callback throws; 0
\* for a callback that does not throw
CallbackThrowsAt == {0, 1, 2, 3}

\* The writer about to run a call during which the callback throws at its
\* k-th invocation
ThrowingAt(s, k) == [s EXCEPT !.throws_at = k]

AddFromFilesystemThrowing(filename, k) ==
    Return(add_from_filesystem(ThrowingAt(Self, k), filename, FALSE, Unchanged(filename)),
           "add_from_filesystem",
           [source |-> filename, target |-> filename, read_symlinks |-> FALSE,
            avail |-> Unchanged(filename), throws_at |-> k])

\* close(), called by the user or by ~tarfile()
CloseThrowing(k) ==
    Return(close(ThrowingAt(Self, k)), "close", [throws_at |-> k])

NextSink ==
    \/ \E k \in CallbackThrowsAt : AddFromFilesystemThrowing(P_a, k)
    \/ \E k \in CallbackThrowsAt : AddFromFilesystemThrowing(P_l, k)
    \/ \E k \in CallbackThrowsAt : CloseThrowing(k)

SpecSink == Init /\ [][NextSink]_vars

IsOpen == is_open(Self)

\* C14: once a close() has returned, is_open() is false, and a later close()
\* (that of the destructor too) hands nothing more to the output, in File
\* mode and in Callback mode, whether or not the output failed during the
\* first close().
C14_CloseIsIdempotent ==
    [][(ncalls' # ncalls /\ call'.op = "close") =>
          /\ ~IsOpen'
          /\ (call.op = "close" => (emitted' = emitted /\ Archive' = Archive))]_vars

\* C15: a close() called by the user throws to its caller the exception the
\* output raised while the two zero blocks were written or the output was
\* flushed and closed.
C15_CloseReportsSinkFailure ==
    (call.op = "close" /\ call.thrown) => call.exc # "none"

\* ------------------------------------------------------------------------
\* C16
\* ------------------------------------------------------------------------

\* C16: a stream_file_complete that throws while a streaming entry is in
\* progress (because the name is that of a file already written, say)
\* leaves stream_file_header_pos_ as it was, not negative, so that the
\* entry stays in progress and a later stream_file_complete can still write
\* its header over the placeholder.
C16_FailedCompleteKeepsStreaming ==
    [][(/\ IsOpen
        /\ stream_file_header_pos_ >= 0
        /\ ncalls' # ncalls
        /\ call'.op = "stream_file_complete"
        /\ call'.exc # "none")
       => stream_file_header_pos_' = stream_file_header_pos_]_vars

\* ------------------------------------------------------------------------
\* A writer that compresses (C17)
\* ------------------------------------------------------------------------

\* The factors by which LZ4 shrinks the blocks of a run: not at all, and to
\* a sixteenth
CompressionRatios == {1, 16}

\* The members of a tarfile after the member initializers of
\* tarfile(filename, compression, type) and tarfile(callback, compression,
\* type)
Members(type, mode, compression, ratio) ==
    [type_ |-> type, mode_ |-> mode,
     file_name_ |-> IF mode = "file_output" THEN P_o ELSE <<>>,
     file_ |-> [is_open |-> mode = "file_output", content |-> <<>>, pos |-> 0],
     file_buffer_ |-> <<>>, callback_ |-> (mode = "stream_output"), emitted |-> <<>>,
     stream_file_header_pos_ |-> -1, stream_block_ |-> ZeroBlock,
     stream_block_used_ |-> 0, stored_inos_ |-> <<>>, stored_files_ |-> {},
     cur |-> <<>>, admitted |-> <<>>, streamed |-> <<>>, exc |-> "none",
     seeks |-> 0, throws_at |-> 0, thrown |-> FALSE,
     compression_ |-> compression,
     lz4_ctx_ |-> [tmpIn |-> <<>>, blockCompression |-> "compressed", ratio |-> ratio],
     lz4_out_buf_ |-> <<>>, lz4_out_buf_pos_ |-> 0]

\* The state in which the constructor leaves the writer s
ConstructedAs(s, limit) ==
    /\ maxcalls = limit
    /\ type_ = s.type_
    /\ mode_ = s.mode_
    /\ file_name_ = s.file_name_
    /\ file_ = s.file_
    /\ file_buffer_ = s.file_buffer_
    /\ callback_ = s.callback_
    /\ emitted = s.emitted
    /\ stream_file_header_pos_ = s.stream_file_header_pos_
    /\ stream_block_ = s.stream_block_
    /\ stream_block_used_ = s.stream_block_used_
    /\ stored_inos_ = s.stored_inos_
    /\ stored_files_ = s.stored_files_
    /\ cur = s.cur
    /\ admitted = s.admitted
    /\ streamed = s.streamed
    /\ compression_ = s.compression_
    /\ lz4_ctx_ = s.lz4_ctx_
    /\ lz4_out_buf_ = s.lz4_out_buf_
    /\ lz4_out_buf_pos_ = s.lz4_out_buf_pos_
    /\ call = [op |-> "tarfile", exc |-> s.exc, args |-> <<>>, seeks |-> s.seeks,
               thrown |-> s.thrown]
    /\ ncalls = 0

\* tarfile(callback, compression_mode::lz4, type)
InitLz4 ==
    \E type \in {"unix_v7", "ustar"}, ratio \in CompressionRatios :
        ConstructedAs(init_lz4(Members(type, "stream_output", "lz4", ratio)), MaxCalls)

NextLz4 ==
    \/ AddFromFilesystem(P_a, FALSE, Unchanged(P_a))
    \/ AddFromFilesystemTo(P_b, N_n, FALSE, Unchanged(P_b))
    \/ AddSymlink(N_t, N_n)
    \/ AddDirectory(N_d)
    \/ Close

SpecLz4 == InitLz4 /\ [][NextLz4]_vars

\* C17: in Callback mode every invocation of the callback carries
\* used_bytes = 512, whether it is made by the constructor, by an admission
\* or by close(), without compression and with LZ4.
C17_CallbackBlocksAreFull ==
    mode_ = "stream_output" =>
        \A i \in 1..Len(emitted) : emitted[i].size = BLOCK_SIZE

\* ------------------------------------------------------------------------
\* The checksum field (C18, C19)
\* ------------------------------------------------------------------------

\* The number that a string of octal digits denotes
RECURSIVE OctValue(_)
OctValue(digits) ==
    IF digits = <<>> THEN 0
    ELSE 8 * OctValue(SubSeq(digits, 1, Len(digits) - 1)) + (digits[Len(digits)] - CH_0)

\* The sum of the 512 bytes of a header with the bytes 148..155 counted as
\* eight spaces
SumWithSpaces(h) ==
    SumBytes(h, 1, UNIX_V7_USTAR_HEADER_POS_CHECKSUM)
        + UNIX_V7_USTAR_HEADER_LEN_CHKSUM * SPACE
        + SumBytes(h, UNIX_V7_USTAR_HEADER_POS_CHECKSUM
                        + UNIX_V7_USTAR_HEADER_LEN_CHKSUM + 1, Len(h))

\* The six bytes 148..153 of a header
ChecksumDigits(h) ==
    SubSeq(h, UNIX_V7_USTAR_HEADER_POS_CHECKSUM + 1,
           UNIX_V7_USTAR_HEADER_POS_CHECKSUM + UNIX_V7_USTAR_HEADER_LEN_CHKSUM - 2)

\* C18: in every header the writer has written, for an entry of any kind
\* and in either format, the bytes 148..153 are six octal digits, and the
\* number they denote is the sum of the 512 bytes of the header taken as
\* unsigned 8-bit values with the bytes 148..155 counted as eight spaces.
C18_ChecksumDigitsEncodeByteSum ==
    \A k \in 1..Len(admitted) :
        /\ \A i \in 1..Len(ChecksumDigits(admitted[k].header)) :
               ChecksumDigits(admitted[k].header)[i] \in CH_0..(CH_0 + 7)
        /\ OctValue(ChecksumDigits(admitted[k].header)) = SumWithSpaces(admitted[k].header)

\* A ustar archive holds the headers of three entries, a backpatched regular
\* file and a device among them
C18_HeadersOfSeveralKinds ==
    /\ type_ = "ustar"
    /\ Len(admitted) = 3
    /\ \E j, k \in 1..Len(admitted) :
           /\ HeaderTypeflag(admitted[j].header) = REGULAR_FILE
           /\ admitted[j].data # <<>>
           /\ HeaderTypeflag(admitted[k].header) = CHARACTER_SPECIAL_FILE

\* C19: in every header the writer has written, byte 154 is 0x00 and byte
\* 155 is 0x20: the checksum digits are followed by a NUL and then a space.
C19_ChecksumEndsWithNulThenSpace ==
    \A k \in 1..Len(admitted) :
        /\ admitted[k].header[UNIX_V7_USTAR_HEADER_POS_CHECKSUM + 6 + 1] = 0
        /\ admitted[k].header[UNIX_V7_USTAR_HEADER_POS_CHECKSUM + 7 + 1] = SPACE

\* ------------------------------------------------------------------------
\* Long names (C20)
\* ------------------------------------------------------------------------

\* A name of n bytes: letters, with a '/' as every 60th byte if slashes is
\* set
NameOfLength(n, slashes) ==
    <<>> \o [i \in 1..n |-> IF slashes /\ i % 60 = 0 THEN SLASH ELSE 97 + (i % 7)]

\* Names as long as and longer than the name field, and as long as and
\* longer than the prefix and name fields with the '/' between them
LongNames ==
    {NameOfLength(n, TRUE) : n \in {100, 101, 255, 256, 257}}
        \cup {NameOfLength(101, FALSE)}

NextNames ==
    \/ \E name \in LongNames : AddSymlink(N_t, name)
    \/ \E name \in LongNames : AddDirectory(name)
    \/ AddFileStreaming
    \/ \E name \in LongNames : StreamFileComplete(name, 0)

SpecNames == Init /\ [][NextNames]_vars

\* The longest archive name a header of the writer's format can hold
LongestName ==
    IF type_ = "ustar"
    THEN USTAR_HEADER_LEN_PREFIX + UNIX_V7_USTAR_HEADER_LEN_NAME
    ELSE UNIX_V7_USTAR_HEADER_LEN_NAME

\* C20: the admission of an entry whose archive name is longer than 255
\* bytes in ustar format, or longer than 100 bytes in unix_v7 format,
\* throws, and no header (with a shortened form of the name) is written.
C20_TooLongNameIsRejected ==
    [][(/\ ncalls' # ncalls
        /\ call'.op \in {"add_symlink", "add_directory", "stream_file_complete"}
        /\ Len(call'.args.name) > LongestName)
       => /\ call'.exc # "none"
          /\ Archive' = Archive
          /\ emitted' = emitted
          /\ admitted' = admitted]_vars

\* ------------------------------------------------------------------------
\* Names split into prefix and name (C21)
\* ------------------------------------------------------------------------

\* A name of n bytes: letters, with a '/' at each of the 0-based indexes seps
NameWithSeparators(n, seps) ==
    <<>> \o [i \in 1..n |-> IF (i - 1) \in seps THEN SLASH ELSE 97 + (i % 7)]

\* Names of 101 to 255 bytes with a '/' among the indexes 100..154, and one
\* with its only '/' at index 155
SplitNames ==
    { NameWithSeparators(130, {3, 100}),
      NameWithSeparators(101, {100}),
      NameWithSeparators(255, {154}),
      NameWithSeparators(255, {100}),
      NameWithSeparators(255, {100, 154}),
      NameWithSeparators(200, {120, 170}),
      NameWithSeparators(255, {155}) }

NextSplit ==
    \/ \E name \in SplitNames : AddSymlink(N_t, name)
    \/ AddFileStreaming
    \/ \E name \in SplitNames : StreamFileComplete(name, 0)

SpecSplit == Init /\ [][NextSplit]_vars

\* A field of a header as a reader takes it: the bytes up to the first NUL,
\* all of them if there is none
FieldString(h, pos, len) ==
    LET nuls == {i \in 1..len : h[pos + i] = 0}
    IN  IF nuls = {} THEN SubSeq(h, pos + 1, pos + len)
        ELSE SubSeq(h, pos + 1,
                    pos + (CHOOSE i \in nuls : \A j \in nuls : i <= j) - 1)

\* The name a reader of ustar archives gives the entry: prefix, '/', name
Recombined(h) ==
    FieldString(h, USTAR_HEADER_POS_PREFIX, USTAR_HEADER_LEN_PREFIX)
        \o <<SLASH>>
        \o FieldString(h, UNIX_V7_USTAR_HEADER_POS_NAME, UNIX_V7_USTAR_HEADER_LEN_NAME)

\* A step in which a ustar writer admits an entry under a name of at most
\* 255 bytes that has a '/' among the indexes 100..154
SplitNameAdmitted ==
    /\ ncalls' # ncalls
    /\ type_ = "ustar"
    /\ call'.op \in {"add_symlink", "stream_file_complete"}
    /\ call'.exc = "none"
    /\ Len(admitted') = Len(admitted) + 1
    /\ Len(call'.args.name) <= USTAR_HEADER_LEN_PREFIX + UNIX_V7_USTAR_HEADER_LEN_NAME
    /\ \E i \in UNIX_V7_USTAR_HEADER_LEN_NAME..(USTAR_HEADER_LEN_PREFIX - 1) :
           i < Len(call'.args.name) /\ call'.args.name[i + 1] = SLASH

\* The number of bytes of name after its last '/' of index 154 or less
TailLength(name) ==
    Len(name) - RFind(SubSeq(name, 1, Min(Len(name), USTAR_HEADER_LEN_PREFIX)), SLASH) - 1

\* C21 as stated: in ustar format, for every name N of at most 255 bytes
\* with a '/' among the byte indexes 100..154, the prefix field, a '/' and
\* the name field of the header written give N back.
C21_PrefixAndNameRecoverName ==
    [][SplitNameAdmitted =>
          Recombined(admitted'[Len(admitted')].header) = call'.args.name]_vars

\* C21 amended: in ustar format, for every name N of at most 255 bytes with
\* a '/' among the byte indexes 100..154 and at most 100 bytes after the
\* last '/' of index 154 or less, the prefix field, a '/' and the name field
\* of the header written give N back; with more than 100 bytes after that
\* '/', the name field holds the first 100 of them only.
C21_PrefixAndNameRecoverShortTail ==
    [][SplitNameAdmitted =>
          IF TailLength(call'.args.name) <= UNIX_V7_USTAR_HEADER_LEN_NAME
          THEN Recombined(admitted'[Len(admitted')].header) = call'.args.name
          ELSE Recombined(admitted'[Len(admitted')].header)
                   = SubSeq(call'.args.name, 1,
                            Len(call'.args.name) - TailLength(call'.args.name)
                                + UNIX_V7_USTAR_HEADER_LEN_NAME)]_vars

\* A ustar writer has admitted an entry under a name of 255 bytes whose only
\* '/' is at index 154: the prefix field holds 154 bytes, the name field 100
C21_SplitAtLastSeparatorOfPrefix ==
    /\ type_ = "ustar"
    /\ call.op = "stream_file_complete"
    /\ call.exc = "none"
    /\ call.args.name = NameWithSeparators(255, {154})
    /\ Len(admitted) > 0
    /\ Len(FieldString(admitted[Len(admitted)].header, USTAR_HEADER_POS_PREFIX,
                       USTAR_HEADER_LEN_PREFIX)) = 154

\* ------------------------------------------------------------------------
\* Entries of every kind (C22, C23)
\* ------------------------------------------------------------------------

\* The kinds unix_v7 has no type flag for
DeviceKinds == {CHARACTER_SPECIAL_FILE, BLOCK_SPECIAL_FILE, FIFO}

NextKinds ==
    \/ AddCharacterSpecialFile(N_n)
    \/ AddBlockSpecialFile(N_n)
    \/ AddFifo(N_n)
    \/ \E dirname \in {N_d, Append(N_d, SLASH)} : AddDirectory(dirname)
    \/ \E filename \in {P_p, P_k, P_v, P_d, P_l} :
           AddFromFilesystem(filename, FALSE, Unchanged(filename))
    \/ AddFromFilesystemTo(P_d, N_t, FALSE, Unchanged(P_d))
    \/ Close

SpecKinds == Init /\ [][NextKinds]_vars

StoredName(h) ==
    IF FieldString(h, USTAR_HEADER_POS_PREFIX, USTAR_HEADER_LEN_PREFIX) = <<>>
           \/ type_ = "unix_v7"
    THEN FieldString(h, UNIX_V7_USTAR_HEADER_POS_NAME, UNIX_V7_USTAR_HEADER_LEN_NAME)
    ELSE Recombined(h)

\* C23: every entry add_directory admits, under a name with or without a
\* '/' at its end and of any length the admission accepts, has a stored name
\* that ends with '/', and the type flag '5' in ustar format, '0' in unix_v7
\* format.
C23_DirectoryNameEndsWithSlash ==
    [][(/\ ncalls' # ncalls
        /\ call'.op = "add_directory"
        /\ call'.exc = "none"
        /\ Len(admitted') = Len(admitted) + 1)
       => /\ EndsWithSlash(StoredName(admitted'[Len(admitted')].header))
          /\ HeaderTypeflag(admitted'[Len(admitted')].header)
                 = IF type_ = "ustar" THEN DIRECTORY ELSE REGULAR_FILE]_vars

\* ------------------------------------------------------------------------
\* The mode field (C24)
\* ------------------------------------------------------------------------

\* The modes handed to add_directory: 0644, 04755, and the st_mode values
\* 0100644 and 040755
Modes == {420, 2541, 33188, 16877}

AddDirectoryAs(dirname, mode) ==
    Return(add_directory(Self, dirname, mode, 0, 0, 1), "add_directory",
           [name |-> dirname, mode |-> mode])

NextModes ==
    \/ \E dirname \in {N_d, N_t}, mode \in Modes : AddDirectoryAs(dirname, mode)
    \/ \E filename \in {P_a, P_s} :
           AddFromFilesystem(filename, FALSE, Unchanged(filename))
    \/ Close

SpecModes == Init /\ [][NextModes]_vars

\* The number in the mode field of a header
HeaderMode(h) ==
    OctValue(FieldString(h, UNIX_V7_USTAR_HEADER_POS_MODE, UNIX_V7_USTAR_HEADER_LEN_MODE))

\* C24: the mode field of every header written encodes mode & 07777, the
\* lower 12 bits of the mode the caller supplied or the filesystem holds,
\* whatever higher bits that mode has.
C24_ModeFieldHoldsLowerTwelveBits ==
    [][(/\ ncalls' # ncalls
        /\ call'.op \in {"add_directory", "add_from_filesystem"}
        /\ call'.exc = "none"
        /\ Len(admitted') = Len(admitted) + 1)
       => HeaderMode(admitted'[Len(admitted')].header)
              = IF call'.op = "add_directory" THEN call'.args.mode % 4096
                ELSE get_stat(call'.args.source).perms % 4096]_vars

\* ------------------------------------------------------------------------
\* Sources that are rejected (C25)
\* ------------------------------------------------------------------------

\* A file that is stored, then the sources rejected: one that does not
\* exist, one that cannot be read, the archive itself and a socket
Sources == {P_b, P_z, P_u, P_o, P_x}

\* The bytes such a source delivers
Delivered(path) == IF file_exists(path) THEN Unchanged(path) ELSE 0

NextRejects ==
    \/ \E filename \in Sources : AddFromFilesystem(filename, FALSE, Delivered(filename))
    \/ \E source_path \in Sources :
           AddFromFilesystemTo(source_path, N_n, FALSE, Delivered(source_path))
    \/ AddFromFilesystemRecursive(P_e, FALSE)
    \/ Close

SpecRejects == Init /\ [][NextRejects]_vars

\* The source an open writer rejects
Rejected(source_path) ==
    \/ ~file_exists(source_path)
    \/ source_path \in Unreadable
    \/ source_path = file_name_
    \/ type_flag(source_path) = UNSUPPORTED_TYPE

InvalidNames ==
    { <<DOT, DOT>>, <<110, SLASH, DOT, DOT, SLASH, 116>>, <<116, SLASH, DOT, DOT>>,
      <<>>, <<110, SLASH>> }

NextTargets ==
    \/ \E name \in InvalidNames : AddSymlink(N_t, name)
    \/ \E name \in InvalidNames : AddDirectory(name)
    \/ AddFileStreaming
    \/ \E name \in InvalidNames : StreamFileComplete(name, 0)
    \/ \E name \in InvalidNames : AddFromFilesystemTo(P_b, name, FALSE, Unchanged(P_b))
    \/ AddFromFilesystem(P_up, FALSE, Unchanged(P_up))

SpecTargets == Init /\ [][NextTargets]_vars

\* The archive name a step's call gives its entry
TargetOffered ==
    IF call'.op = "add_from_filesystem" THEN call'.args.target ELSE call'.args.name

\* A step in which an open writer, in the state for it, is offered an entry
\* under a name that is "..", contains "../" or "/..", is empty, or ends
\* with '/' while the entry is no directory
InvalidTargetOffered ==
    /\ ncalls' # ncalls
    /\ IsOpen
    /\ \/ /\ call'.op \in {"add_symlink", "add_directory", "add_from_filesystem"}
          /\ stream_file_header_pos_ < 0
       \/ /\ call'.op = "stream_file_complete"
          /\ stream_file_header_pos_ >= 0
    /\ \/ InvalidTarget(TargetOffered)
       \/ call'.op # "add_directory" /\ EndsWithSlash(TargetOffered)

\* C26: every admission call (add_symlink, add_directory,
\* stream_file_complete and add_from_filesystem with one argument and with
\* two among them) throws, before anything is handed to the output,
\* if the name of the entry is "..", contains "../" or "/..", is empty, or
\* ends with '/' and the entry is no directory.
C26_InvalidTargetIsRejected ==
    [][InvalidTargetOffered =>
          /\ call'.exc # "none"
          /\ Archive' = Archive
          /\ emitted' = emitted
          /\ admitted' = admitted]_vars

\* ------------------------------------------------------------------------
\* The names of users and groups (C27)
\* ------------------------------------------------------------------------

\* <errno.h>
EPERM == 1
ENOENT == 2
ESRCH == 3
EBADF == 9

\* Other errors of a lookup: EIO and ERANGE
OtherErrors == {5, 34}

\* "result == nullptr"
NoEntry == <<>>

\* PosixOS::throw_exception_getpwd_getgrgid_on_error: whether it throws
throw_exception_getpwd_getgrgid_on_error(error) ==
    error \notin {0, ENOENT, ESRCH, EBADF, EPERM}

\* A lookup that has put name into the cache and returns it
Cached(cache, id, name) ==
    [name |-> name, exc |-> "none", cache |-> MapInsert(cache, id, name)]

\* PosixOS::group_name_buffered: gr is what getgrgid_r answers, its return
\* value and the entry result points to
group_name_buffered(grpid_cache_, gid, gr) ==
    IF gid \in DOMAIN grpid_cache_
    THEN [name |-> grpid_cache_[gid], exc |-> "none", cache |-> grpid_cache_]
    ELSE IF throw_exception_getpwd_getgrgid_on_error(gr.error)
    THEN [name |-> <<>>, exc |-> "errno_exception", cache |-> grpid_cache_]
    ELSE Cached(grpid_cache_, gid,
                IF gr.result = NoEntry THEN DecDigits(gid) ELSE gr.result)

\* PosixOS::user_name_buffered: pw is what getpwuid_r answers
user_name_buffered(pwuid_cache_, uid, pw) ==
    IF uid \in DOMAIN pwuid_cache_
    THEN [name |-> pwuid_cache_[uid], exc |-> "none", cache |-> pwuid_cache_]
    ELSE IF pw.error # 0
    THEN [name |-> <<>>, exc |-> "errno_exception", cache |-> pwuid_cache_]
    ELSE IF throw_exception_getpwd_getgrgid_on_error(pw.error)
    THEN [name |-> <<>>, exc |-> "errno_exception", cache |-> pwuid_cache_]
    ELSE Cached(pwuid_cache_, uid,
                IF pw.result = NoEntry THEN DecDigits(uid) ELSE pw.result)

\* The ids looked up and what the host answers: the entry of id 0, no entry
\* without an error, no entry with one
Ids == {0, 7, 1000}

Answers(id) ==
    {[error |-> error, result |-> NoEntry] :
        error \in {0, ENOENT, ESRCH, EBADF, EPERM} \cup OtherErrors}
      \cup (IF id = 0 THEN {[error |-> 0, result |-> user_name(0)]} ELSE {})

\* The caches of a platform: empty, and after the lookup of 7
Caches == {<<>>, Cached(<<>>, 7, DecDigits(7)).cache}

\* r is what the lookup of id returned, or threw, with cache and answer
Looked(op, id, cache, answer, r) ==
    /\ ncalls < maxcalls
    /\ ncalls' = ncalls + 1
    /\ call' = [op |-> op, exc |-> r.exc,
                args |-> [id |-> id, cached |-> id \in DOMAIN cache,
                          answer |-> answer, name |-> r.name],
                seeks |-> 0, thrown |-> FALSE]
    /\ UNCHANGED <<type_, mode_, file_name_, file_, file_buffer_, callback_, emitted,
                   stream_file_header_pos_, stream_block_, stream_block_used_,
                   stored_inos_, stored_files_, cur, admitted, streamed, maxcalls,
                   compression_, lz4_ctx_, lz4_out_buf_, lz4_out_buf_pos_>>

UserName(uid, cache, answer) ==
    Looked("user_name", uid, cache, answer, user_name_buffered(cache, uid, answer))

GroupName(gid, cache, answer) ==
    Looked("group_name", gid, cache, answer, group_name_buffered(cache, gid, answer))

NextLookup ==
    \/ \E uid \in Ids, cache \in Caches : \E answer \in Answers(uid) :
           UserName(uid, cache, answer)
    \/ \E gid \in Ids, cache \in Caches : \E answer \in Answers(gid) :
           GroupName(gid, cache, answer)

SpecLookup == Init /\ [][NextLookup]_vars

\* C27: user_name(uid) and group_name(gid) return the id in decimal whenever
\* the host has no entry for it, whether the lookup says so with an empty
\* result and no error or with one of the errors ENOENT, ESRCH, EBADF and
\* EPERM, and throw only for another error; both behave the same way.
C27_NoEntryGivesDecimalId ==
    (/\ call.op \in {"user_name", "group_name"}
     /\ ~call.args.cached
     /\ call.args.answer.result = NoEntry)
    => IF call.args.answer.error \in {0, ENOENT, ESRCH, EBADF, EPERM}
       THEN call.exc = "none" /\ call.args.name = DecDigits(call.args.id)
       ELSE call.exc # "none"

\* ------------------------------------------------------------------------
\* C28
\* ------------------------------------------------------------------------

\* The place in the output file where the next byte written goes
WritePosition == file_.pos + Len(file_buffer_)

\* C28: an admission call other than add_from_filesystem_recursive that
\* throws has no effect: no block of the rejected entry is in the output,
\* the write position of the output file is where it was before the call,
\* and stored_files_, stored_inos_ and the streaming state are as they were,
\* also when the exception comes from the write_header that follows the
\* data (add_from_filesystem of a regular file in File mode,
\* stream_file_complete).
C28_FailedAdmissionHasNoEffect ==
    [][(/\ ncalls' # ncalls
        /\ call'.op \in (OtherAdmissions \ {"add_from_filesystem_recursive"})
                            \cup {"add_file_streaming_data", "stream_file_complete"}
        /\ call'.exc # "none")
       => /\ Archive' = Archive
          /\ emitted' = emitted
          /\ WritePosition' = WritePosition
          /\ stored_files_' = stored_files_
          /\ stored_inos_' = stored_inos_
          /\ stream_file_header_pos_' = stream_file_header_pos_
          /\ stream_block_used_' = stream_block_used_]_vars

\* ------------------------------------------------------------------------
\* C29
\* ------------------------------------------------------------------------

\* C29: once the writer is closed, no all-zero placeholder written by
\* add_file_streaming or by add_from_filesystem is left in the output: the
\* archive is the records of the admitted entries, each a checksummed
\* header and its data blocks, followed by the two zero blocks, also when
\* close() was called while a streaming entry was in progress.
C29_ClosedArchiveHoldsCompleteRecords ==
    (~IsOpen /\ call.op = "close") =>
        Archive = Records(admitted) \o Zeros(2 * BLOCK_SIZE)

\* ------------------------------------------------------------------------
\* C30
\* ------------------------------------------------------------------------

\* A step in which stream_file_complete or add_from_filesystem returns
\* normally to an open writer in File mode
BackpatchReturned ==
    /\ ncalls' # ncalls
    /\ mode_ = "file_output"
    /\ IsOpen
    /\ call'.op \in {"stream_file_complete", "add_from_filesystem"}
    /\ call'.exc = "none"

\* No byte of the records of the entries admitted before a step is changed
\* by it
RecordsKept ==
    /\ Len(Archive') >= Len(Records(admitted))
    /\ SubSeq(Archive', 1, Len(Records(admitted))) = Records(admitted)

InitDynamic ==
    \E type \in {"unix_v7", "ustar"} : Constructed(type, "file_output", MaxCalls)

NextDynamic ==
    \/ \E avail \in DeliveredSizes : AddFromFilesystem(P_a, FALSE, avail)
    \/ \E avail \in {0, 1100} : AddFromFilesystemTo(P_b, N_n, FALSE, avail)
    \/ AddSymlink(N_t, N_n)

SpecDynamic == InitDynamic /\ [][NextDynamic]_vars

\* The number in the size field of a header
HeaderSize(h) ==
    OctValue(SubSeq(h, UNIX_V7_USTAR_HEADER_POS_SIZE + 1,
                    UNIX_V7_USTAR_HEADER_POS_SIZE + UNIX_V7_USTAR_HEADER_LEN_SIZE))

\* A step in which add_from_filesystem stores a regular file in File mode:
\* write_regular_file_dynamic_size writes its data
DynamicSizeAdded ==
    /\ ncalls' # ncalls
    /\ call'.op = "add_from_filesystem"
    /\ call'.exc = "none"
    /\ mode_ = "file_output"
    /\ Len(admitted') = Len(admitted) + 1
    /\ HeaderTypeflag(admitted'[Len(admitted')].header) = REGULAR_FILE

\* C31: in File mode a regular file added from the filesystem gets, at the
\* place the output had reached, a header whose size field is the number n
\* of bytes read until the end of the file, followed by exactly ceil(n / 512)
\* data blocks that hold those bytes and zeros after them, whatever size the
\* file had when it was added (it may have grown or shrunk since).
C31_DynamicSizeIsBytesRead ==
    [][DynamicSizeAdded =>
          LET n == call'.args.avail
              at == WritePosition
              header == SubSeq(FileBytes', at + 1, at + BLOCK_SIZE)
          IN  /\ HeaderSize(header) = n
              /\ header = admitted'[Len(admitted')].header
              /\ WritePosition' = at + BLOCK_SIZE + CeilBlocks(n) * BLOCK_SIZE
              /\ SubSeq(FileBytes', at + BLOCK_SIZE + 1, WritePosition')
                    = SourceBytes(call'.args.source, n)
                        \o Zeros(CeilBlocks(n) * BLOCK_SIZE - n)]_vars

\* A file that had 600 bytes when it was added was stored, after another
\* entry, with the 1100 bytes it delivered
C31_StoredGrownFile ==
    /\ mode_ = "file_output"
    /\ call.op = "add_from_filesystem"
    /\ call.exc = "none"
    /\ call.args.source = P_a
    /\ call.args.avail = 1100
    /\ Len(admitted) = 2
    /\ HeaderTypeflag(admitted[2].header) = REGULAR_FILE
    /\ HeaderSize(admitted[2].header) = 1100
    /\ Len(admitted[2].data) = 3

\* ------------------------------------------------------------------------
\* C32
\* ------------------------------------------------------------------------

\* A step in which add_from_filesystem writes a HARD_LINK entry for a file
\* whose inode it found in stored_inos_
HardLinkAdded ==
    /\ ncalls' # ncalls
    /\ call'.op = "add_from_filesystem"
    /\ call'.exc = "none"
    /\ Len(admitted') = Len(admitted) + 1
    /\ HeaderTypeflag(admitted'[Len(admitted')].header) = HARD_LINK

\* The entries admitted before a step under the name that is the link name
\* of the entry the step admits
LinkedEntries ==
    {k \in 1..Len(admitted) :
        HeaderName(admitted[k].header)
            = HeaderLinkName(admitted'[Len(admitted')].header)}

\* C32: a HARD_LINK entry that add_from_filesystem writes for an inode found
\* in stored_inos_ comes after a REGULAR entry of the same file that was
\* admitted with the data blocks of its content (the files linked here are
\* not empty), and its link name is not the name of a
\* symbolic link or directory entry: the content of every regular file
\* admitted is in the archive at least once.
C32_HardLinkFollowsStoredContent ==
    [][HardLinkAdded =>
          /\ \E k \in StoredRegular(ino(admitted'[Len(admitted')].src)) :
                 Len(admitted[k].data) = CeilBlocks(file_size(admitted[k].src))
          /\ \A k \in LinkedEntries :
                 HeaderTypeflag(admitted[k].header) \notin {SYMBOLIC_LINK, DIRECTORY}]_vars

\* ------------------------------------------------------------------------
\* The write buffer of a writer to a file, with and without LZ4 (C33, C34)
\* ------------------------------------------------------------------------

\* tarfile(filename, compression, type).  With LZ4 init_lz4 copies the frame
\* header into a buffer without capacity: either the bytes land, or the
\* process ends in the constructor and makes no call
MaxBufferCalls == 4

InitBuffer ==
    \E type \in {"unix_v7", "ustar"} :
        \/ ConstructedAs(init_lz4(Members(type, "file_output", "none", 1)),
                         MaxBufferCalls)
        \/ \E ratio \in CompressionRatios :
               \/ ConstructedAs(init_lz4(Members(type, "file_output", "lz4", ratio)),
                                MaxBufferCalls)
               \/ ConstructedAs(Members(type, "file_output", "lz4", ratio), 0)

\* The process ends in the std::copy_n of a file_buffered_write of the next
\* call
Ended ==
    /\ mode_ = "file_output"
    /\ compression_ = "lz4"
    /\ file_.is_open
    /\ ncalls < maxcalls
    /\ maxcalls' = ncalls
    /\ call' = [op |-> "SIGSEGV", exc |-> "none", args |-> <<>>, seeks |-> 0,
                thrown |-> FALSE]
    /\ UNCHANGED <<type_, mode_, file_name_, file_, file_buffer_, callback_, emitted,
                   stream_file_header_pos_, stream_block_, stream_block_used_,
                   stored_inos_, stored_files_, cur, admitted, streamed, ncalls,
                   compression_, lz4_ctx_, lz4_out_buf_, lz4_out_buf_pos_>>

NextBuffer ==
    \/ AddFromFilesystem(P_a, FALSE, Unchanged(P_a))
    \/ AddSymlink(N_t, N_n)
    \/ AddFileStreaming
    \/ AddFileStreamingData(600)
    \/ StreamFileComplete(N_n, Len(streamed))
    \/ Close
    \/ Ended

SpecBuffer == InitBuffer /\ [][NextBuffer]_vars

\* C33: in File mode the write buffer never holds more bytes than the
\* capacity reserved for it, which is 256 KiB, without compression and with
\* LZ4: it is drained to the file before a write that would not fit.
C33_BufferWithinReservedCapacity ==
    mode_ = "file_output" =>
        /\ file_buffer_capacity(Self) = 512 * BLOCK_SIZE
        /\ Len(file_buffer_) <= file_buffer_capacity(Self)

\* A step in which an entry is admitted by a writer to a file that
\* compresses
Lz4EntryAdmitted ==
    /\ ncalls' # ncalls
    /\ mode_ = "file_output"
    /\ compression_ = "lz4"
    /\ file_.is_open
    /\ call'.exc = "none"
    /\ Len(admitted') = Len(admitted) + 1

\* The position file_tellg() reported before the placeholder, or the
\* header, of the entry a step admits was written
HeaderPosition ==
    IF call'.op = "stream_file_complete" THEN stream_file_header_pos_
    ELSE WritePosition

\* A block of the frame that stores a 512-byte block as it is
StoredBlock(block) == LE32Flagged(BLOCK_SIZE) \o block

\* The block of the frame that holds the data blocks of an entry
DataBlock(data) ==
    IF data = <<>> THEN <<>>
    ELSE LZ4F_block(Concat(data), "compressed", lz4_ctx_.ratio)

WholeBlockBytes == Len(streamed) - (Len(streamed) % BLOCK_SIZE)

\* C35: stream_block_ carries at most 511 bytes (0 <= stream_block_used_ <
\* 512); while an entry is streamed these are the bytes received that do not
\* fill a block, and the whole blocks of the bytes received so far are in
\* the output behind the placeholder, in the order received and up to the
\* place the output has reached; after stream_file_complete nothing is
\* carried, and an entry completed without data has no data block.
C35_StreamBlockCarriesLessThanABlock ==
    /\ stream_block_used_ >= 0
    /\ stream_block_used_ < BLOCK_SIZE
    /\ (stream_file_header_pos_ >= 0 /\ file_.is_open) =>
          /\ stream_block_used_ = Len(streamed) % BLOCK_SIZE
          /\ SubSeq(stream_block_, 1, stream_block_used_)
                = SubSeq(streamed, WholeBlockBytes + 1, Len(streamed))
          /\ WritePosition = stream_file_header_pos_ + BLOCK_SIZE + WholeBlockBytes
          /\ Len(FileBytes) >= WritePosition
          /\ SubSeq(FileBytes, stream_file_header_pos_ + BLOCK_SIZE + 1, WritePosition)
                = SubSeq(streamed, 1, WholeBlockBytes)
    /\ call.op = "stream_file_complete" => stream_block_used_ = 0
    /\ (call.op = "stream_file_complete" /\ call.exc = "none" /\ streamed = <<>>) =>
          /\ admitted[Len(admitted)].data = <<>>
          /\ WritePosition = Len(Records(admitted))

\* 1112 bytes were streamed in chunks of 100, 412 and 600 bytes: two blocks
\* are in the output and 88 bytes are carried
C35_CarriedAfterSeveralChunks ==
    /\ stream_file_header_pos_ >= 0
    /\ call.op = "add_file_streaming_data"
    /\ call.exc = "none"
    /\ Len(streamed) = 1112
    /\ stream_block_used_ = 88
    /\ Len(FileBytes) = stream_file_header_pos_ + 3 * BLOCK_SIZE

\* ------------------------------------------------------------------------
\* A directory added under another name (C36)
\* ------------------------------------------------------------------------

\* The spellings of the directory and of its new name: "t", "t/", "/t" and
\* "n/t"
WalkSources == {P_d, P_ds}
WalkTargets == {N_t, Append(N_t, SLASH), <<SLASH>> \o N_t, N_n \o <<SLASH>> \o N_t}

NextWalk ==
    \/ \E source_path \in WalkSources, target_path \in WalkTargets :
           AddFromFilesystemRecursiveTo(source_path, target_path, FALSE)
    \/ AddFromFilesystemTo(P_a, N_n, FALSE, Unchanged(P_a))
    \/ Close

SpecWalk == Init /\ [][NextWalk]_vars

\* A path without the '/' at its end, if it has one
WithoutSeparator(path) ==
    IF EndsWithSlash(path) THEN SubSeq(path, 1, Len(path) - 1) ELSE path

\* The name under which the walk of source_path, stored as target_path, is
\* to store the visited path p: the new name, then what follows the
\* directory in p, the separator included
NameInTarget(p, source_path, target_path) ==
    relative_path(
        WithoutSeparator(target_path)
            \o (IF p = source_path THEN <<>>
                ELSE SubSeq(p, Len(WithoutSeparator(source_path)) + 1, Len(p)))
            \o (IF type_flag(p) = DIRECTORY THEN <<SLASH>> ELSE <<>>))

\* C36: add_from_filesystem_recursive(source_path, target_path) of a
\* directory stores every path it visits under target_path (without a '/'
\* at its end) followed by what follows the directory in the visited path,
\* separator included (a directory entry ends with '/'), however
\* source_path and target_path are spelled, with or without a '/' at the
\* end.
C36_WalkReplacesSourceByTarget ==
    [][(/\ ncalls' # ncalls
        /\ call'.op = "add_from_filesystem_recursive"
        /\ type_flag(call'.args.source) = DIRECTORY)
       => \A k \in (Len(admitted) + 1)..Len(admitted') :
              StoredName(admitted'[k].header)
                  = NameInTarget(admitted'[k].src, call'.args.source,
                                 call'.args.target)]_vars

\* ------------------------------------------------------------------------
\* relative_path as a function (C37)
\* ------------------------------------------------------------------------

\* The paths handed to relative_path: every string of at most MaxPathLen
\* characters out of '/', '.' and 'a'
MaxPathLen == 5
PathChars == {SLASH, DOT, 97}
Paths == UNION {{<<>> \o f : f \in [1..n -> PathChars]} : n \in 0..MaxPathLen}

\* relative_path(path) has returned, or thrown, r
RelativePath(path, r) ==
    /\ ncalls < maxcalls
    /\ ncalls' = ncalls + 1
    /\ call' = [op |-> "relative_path",
                exc |-> IF r = RelThrow THEN "invalid_argument" ELSE "none",
                args |-> [path |-> path, result |-> r],
                seeks |-> 0, thrown |-> FALSE]
    /\ UNCHANGED <<type_, mode_, file_name_, file_, file_buffer_, callback_, emitted,
                   stream_file_header_pos_, stream_block_, stream_block_used_,
                   stored_inos_, stored_files_, cur, admitted, streamed, maxcalls,
                   compression_, lz4_ctx_, lz4_out_buf_, lz4_out_buf_pos_>>

NextRelative == \E path \in Paths : RelativePath(path, relative_path(path))

SpecRelative ==
    (\E type \in {"unix_v7", "ustar"} : Constructed(type, "stream_output", 1))
        /\ [][NextRelative]_vars

\* pre is made of whole components that are empty or ".."
RECURSIVE DotDotComponents(_)
DotDotComponents(pre) ==
    IF pre = <<>> THEN TRUE
    ELSE IF pre[1] = SLASH THEN DotDotComponents(Tail(pre))
    ELSE IF StartsWith(pre, <<DOT, DOT>>) /\ (Len(pre) = 2 \/ pre[3] = SLASH)
    THEN DotDotComponents(SubSeq(pre, 3, Len(pre)))
    ELSE FALSE

\* r is path without leading components that are empty or ".."
LeadingComponentsRemoved(path, r) ==
    /\ Len(r) <= Len(path)
    /\ SubSeq(path, Len(path) - Len(r) + 1, Len(path)) = r
    /\ LET pre == SubSeq(path, 1, Len(path) - Len(r))
       IN  /\ DotDotComponents(pre)
           /\ r = <<>> \/ pre = <<>> \/ EndsWithSlash(pre)

\* C37: relative_path(p) throws std::invalid_argument (p is "/" or is
\* reduced to it) or returns a string that starts with neither '/' nor "..",
\* which is p without leading components ("./" where p ends with "../" and
\* is reduced to it), and relative_path of the result is the result.
C37_RelativePathStripsLeadingComponents ==
    (call.op = "relative_path" /\ call.exc = "none") =>
        LET r == call.args.result
            path == call.args.path
        IN  /\ ~StartsWith(r, <<SLASH>>)
            /\ ~StartsWith(r, <<DOT, DOT>>)
            /\ relative_path(r) = r
            /\ \/ LeadingComponentsRemoved(path, r)
               \/ /\ r = <<DOT, SLASH>>
                  /\ LeadingComponentsRemoved(path, <<DOT, DOT, SLASH>>)

\* ------------------------------------------------------------------------
\* C38
\* ------------------------------------------------------------------------
\* The values handed to to_octal_ascii: small ones, the ones next to 8^6 and
\* 8^8, where the digits of the value fill a field or no longer fit it, and
\* the largest the checker's integers hold
OctalValues ==
    {0, 7, 8, 493, 262143, 262144, 262149, 16777215, 16777216, 16777339, 2147483647}

\* The widths of the numeric fields: LEN_CHKSUM - 2, LEN_MODE (LEN_UID,
\* LEN_GID, LEN_DEVMAJOR, LEN_DEVMINOR), LEN_SIZE (LEN_MTIM)
OctalWidths ==
    {UNIX_V7_USTAR_HEADER_LEN_CHKSUM - 2, UNIX_V7_USTAR_HEADER_LEN_MODE,
     UNIX_V7_USTAR_HEADER_LEN_SIZE}

ToOctalAscii(value, width) ==
    /\ ncalls < maxcalls
    /\ ncalls' = ncalls + 1
    /\ call' = [op |-> "to_octal_ascii", exc |-> "none",
                args |-> [value |-> value, width |-> width,
                          result |-> to_octal_ascii(value, width)],
                seeks |-> 0, thrown |-> FALSE]
    /\ UNCHANGED <<type_, mode_, file_name_, file_, file_buffer_, callback_, emitted,
                   stream_file_header_pos_, stream_block_, stream_block_used_,
                   stored_inos_, stored_files_, cur, admitted, streamed, maxcalls,
                   compression_, lz4_ctx_, lz4_out_buf_, lz4_out_buf_pos_>>

NextOctal ==
    \/ \E value \in OctalValues, width \in OctalWidths : ToOctalAscii(value, width)
    \/ \E mode \in Modes : AddDirectoryAs(N_d, mode)
    \/ \E avail \in {600, 1100} : AddFromFilesystem(P_a, FALSE, avail)

SpecOctal ==
    (\E type \in {"unix_v7", "ustar"} : Constructed(type, "file_output", MaxCalls))
        /\ [][NextOctal]_vars

\* The last width digits of value written in octal, zeros standing where the
\* value has no digit: value mod 8^width, zero-padded to width
RECURSIVE ModuloInOctal(_, _)
ModuloInOctal(value, width) ==
    IF width = 0 THEN <<>>
    ELSE Append(ModuloInOctal(value \div 8, width - 1), CH_0 + (value % 8))

\* The len bytes of the header h from offset pos on
NumericField(h, pos, len) == SubSeq(h, pos + 1, pos + len)

\* The numeric fields of a header of the given type, as <<offset, length>>
NumericFields(type) ==
    {<<UNIX_V7_USTAR_HEADER_POS_MODE, UNIX_V7_USTAR_HEADER_LEN_MODE>>,
     <<UNIX_V7_USTAR_HEADER_POS_UID, UNIX_V7_USTAR_HEADER_LEN_UID>>,
     <<UNIX_V7_USTAR_HEADER_POS_GID, UNIX_V7_USTAR_HEADER_LEN_GID>>,
     <<UNIX_V7_USTAR_HEADER_POS_SIZE, UNIX_V7_USTAR_HEADER_LEN_SIZE>>,
     <<UNIX_V7_USTAR_HEADER_POS_MTIM, UNIX_V7_USTAR_HEADER_LEN_MTIM>>,
     <<UNIX_V7_USTAR_HEADER_POS_CHECKSUM, UNIX_V7_USTAR_HEADER_LEN_CHKSUM - 2>>}
    \cup (IF type = "ustar"
          THEN {<<USTAR_HEADER_POS_DEVMAJOR, USTAR_HEADER_LEN_DEVMAJOR>>,
                <<USTAR_HEADER_POS_DEVMINOR, USTAR_HEADER_LEN_DEVMINOR>>}
          ELSE {})

\* C38: to_octal_ascii(value, width) returns exactly width characters, each
\* an octal digit: the octal representation of value mod 8^width, padded
\* with zeros on the left, for every value and for the widths 6, 8 and 12
\* of the header fields; and every numeric field of a header written (mode,
\* uid, gid, size, mtime, checksum, and the device numbers of a ustar
\* header) holds what to_octal_ascii returns for some number and the width
\* of the field.
C38_OctalFieldsHoldValueModuloWidth ==
    /\ call.op = "to_octal_ascii" =>
          /\ Len(call.args.result) = call.args.width
          /\ \A i \in 1..Len(call.args.result) :
                 call.args.result[i] \in CH_0..(CH_0 + 7)
          /\ call.args.result = ModuloInOctal(call.args.value, call.args.width)
    /\ \A k \in 1..Len(admitted) : \A f \in NumericFields(type_) :
          LET field == NumericField(admitted[k].header, f[1], f[2])
          IN  /\ \A i \in 1..f[2] : field[i] \in CH_0..(CH_0 + 7)
              /\ field = to_octal_ascii(OctValue(field), f[2])

\* to_octal_ascii was handed a value with more octal digits than the field
\* is wide (8^6 + 5 for a field of 6), and headers were written
C38_ValueWiderThanField ==
    /\ call.op = "to_octal_ascii"
    /\ call.args.value = 262149
    /\ call.args.width = UNIX_V7_USTAR_HEADER_LEN_CHKSUM - 2
    /\ call.args.result = <<CH_0, CH_0, CH_0, CH_0, CH_0, CH_0 + 5>>
    /\ Len(admitted) = 2
    /\ HeaderSize(admitted[2].header) = 1100

\* ------------------------------------------------------------------------
\* C39
\* ------------------------------------------------------------------------
\* b = std::move(a), the members of b afterwards: close() of b, then the
\* assignments of operator=(tarfile&&).  file_buffer_, stored_files_,
\* compression_ and the LZ4 members are not assigned, and stored_inos_ is
\* assigned from itself; the records of what the sink holds go with the sink
MoveAssignTarget(b, a) ==
    [close(b) EXCEPT !.type_ = a.type_,
                     !.mode_ = a.mode_,
                     !.file_name_ = a.file_name_,
                     !.file_ = a.file_,
                     !.callback_ = a.callback_,
                     !.stream_file_header_pos_ = a.stream_file_header_pos_,
                     !.stream_block_ = a.stream_block_,
                     !.stream_block_used_ = a.stream_block_used_,
                     !.emitted = a.emitted,
                     !.cur = a.cur,
                     !.admitted = a.admitted,
                     !.streamed = a.streamed,
                     !.exc = "none"]

\* b = std::move(a), the members of a afterwards: file_ is moved from, hence
\* closed; callback_ is moved from, which leaves it empty or, if kept, a
\* copy of the callable; then other.close()
MovedFrom(a, kept) ==
    close([a EXCEPT !.file_ = [@ EXCEPT !.is_open = FALSE],
                    !.callback_ = (@ /\ kept)])

\* b = std::move(a) for the writer a of this run and a writer b that was
\* constructed without compression for another sink and has added nothing;
\* from here on the run is the run of b
MoveAssign(kept) ==
    LET a == Self
        b == Members(type_, mode_, "none", 1)
        to == MoveAssignTarget(b, a)
    IN  /\ is_open(a)
        /\ Return([to EXCEPT !.emitted = MovedFrom(a, kept).emitted], "operator=",
                  [kept |-> kept, buffered |-> Len(file_buffer_)])

NextMove ==
    \/ AddDirectory(N_d)
    \/ AddFromFilesystem(P_a, FALSE, Unchanged(P_a))
    \/ AddSymlink(N_t, N_n)
    \/ \E kept \in BOOLEAN : MoveAssign(kept)
    \/ Close

SpecMove == Init /\ [][NextMove]_vars

\* C39: after b = std::move(a) of an open writer a, b continues the archive
\* of a: every byte a accepted, the ones still in its write buffer included,
\* is in the output ahead of what b writes, b has the compression mode,
\* stored_files_ and stored_inos_ of a, and a has emitted nothing more.
C39_MovedWriterContinuesArchive ==
    [][(ncalls' # ncalls /\ call'.op = "operator=") =>
          /\ is_open(Self')
          /\ type_' = type_
          /\ mode_' = mode_
          /\ Archive' = Archive
          /\ compression_' = compression_
          /\ stored_files_' = stored_files_
          /\ stored_inos_' = stored_inos_]_vars

====
